---- MODULE Spec2Model ----
(***************************************************************************)
(* A model of the Software Heritage vault backend (swh/vault/backend.py):  *)
(* the ledger of cooking requests (table vault_bundle), its notification   *)
(* and batch tables, the bundle cache and the tasks sent to the scheduler. *)
(*                                                                         *)
(* Every public method of VaultBackend is a sequence of steps of a caller  *)
(* p.  A step is what the method does between two points where the         *)
(* database is committed (db.conn.commit() or the exit of a                *)
(* @db_transaction method called without a cursor), so the steps of two    *)
(* callers interleave exactly where PostgreSQL lets other transactions see *)
(* the method's writes.                                                    *)
(*                                                                         *)
(* The last part models one run of the git_bare cooker                     *)
(* (swh/vault/cookers/git_bare.py, GitBareCooker.prepare_bundle): the      *)
(* stacks of objects to visit, the set of objects seen, and how often each *)
(* object is fetched from the storage and written to the git directory.    *)
(***************************************************************************)
EXTENDS Integers, Sequences, FiniteSets, TLC

VARIABLES
    vault_bundle,        \* table vault_bundle: a set of rows
    vault_notif_email,   \* table vault_notif_email: a set of rows
    vault_batch,         \* table vault_batch: the set of batch ids
    vault_batch_bundle,  \* table vault_batch_bundle: (batch_id, bundle_id)
    cache,               \* VaultCache: key -> bundle bytes, or NoBlob
    tasks,               \* scheduler: key -> number of tasks created for it
    outbox,              \* messages handed to the SMTP server, in order
    seq,                 \* the bigserial sequences of the three id columns
    clock,               \* the database clock read by NOW()
    proc,                \* each caller's position and local variables
    ncalls,              \* number of calls the callers may still start
    cooker               \* the run of a GitBareCooker

vars == << vault_bundle, vault_notif_email, vault_batch, vault_batch_bundle,
           cache, tasks, outbox, seq, clock, proc, ncalls, cooker >>

\* The variables of the backend.
backend_vars ==
    << vault_bundle, vault_notif_email, vault_batch, vault_batch_bundle,
       cache, tasks, outbox, seq, clock, proc, ncalls >>

-----------------------------------------------------------------------------
(* Bounds of the model. *)

\* Number of backend calls started in one behaviour of Spec.
MaxCalls == 6

\* Number of backend calls started in one behaviour of SpecExpire.
MaxExpireCalls == 7

\* Number of backend calls started in one behaviour of SpecConc.
MaxConcCalls == 4

\* Number of backend calls started in one behaviour of SpecBatch.
MaxBatchCalls == 4

\* Number of backend calls started in one behaviour of SpecNotif.
MaxNotifCalls == 5

\* Number of branches of the snapshot given to the git_bare cooker.
MaxBranches == 2

\* The batch sizes of load_objects, scaled down from 10000, 10000, 10000
\* and 100 so that a stack can hold more than one batch.
RELEASE_BATCH_SIZE == 1
REVISION_BATCH_SIZE == 2
DIRECTORY_BATCH_SIZE == 1
CONTENT_BATCH_SIZE == 1

\* Number of keys in the list given to batch_cook.
MaxBatchLen == 2

-----------------------------------------------------------------------------
(* Values. *)

\* SQL NULL in an integer or timestamp column, Python None for a row.
NULL == 0

\* SQL NULL in the text column progress_msg.
NoMsg == "<null>"

\* No object stored in the cache under a key.
NoBlob == "<none>"

\* No e-mail argument (email=None).
NoEmail == "<none>"

\* The registered cookers (swh.vault.cookers.COOKER_TYPES).
COOKER_TYPES_Any == {"gitfast", "git_bare", "bogus"}
COOKER_TYPES == {"gitfast", "git_bare"}

\* The objects present in the storage: check_exists() is true for them.
StorageObjs == {"o1", "o2"}

\* The keys (bundle_type, swhid) the callers name.  o3 is not in the
\* storage and "bogus" is not a registered cooker.
K1 == << "gitfast", "o1" >>
K2 == << "git_bare", "o2" >>
Keys == { K1, K2 }
MissingKeys == { <<"gitfast", "o3">> }
UnknownKeys == { <<"bogus", "o1">> }
AllKeys == Keys \cup MissingKeys \cup UnknownKeys

Statuses == {"new", "pending", "done", "failed"}
Emails == {"a@example.com"}
Blobs == {"bundle1", "bundle2"}
Messages == {"error42"}
Orderings == {"created", "done", "last_access"}
Procs == {1, 2}

\* A row of vault_bundle with the columns' defaults (task_status 'new',
\* sticky false, ts_created and ts_last_access NOW(), the rest NULL).
NewRow(id, k, sticky, now) ==
    [ id |-> id, type |-> k[1], swhid |-> k[2], task_id |-> NULL,
      task_status |-> "new", sticky |-> sticky, ts_created |-> now,
      ts_done |-> NULL, ts_last_access |-> now, progress_msg |-> NoMsg ]

\* progress() found no row (res is None).
NoRow ==
    [ id |-> NULL, type |-> "", swhid |-> "", task_id |-> NULL,
      task_status |-> "", sticky |-> FALSE, ts_created |-> NULL,
      ts_done |-> NULL, ts_last_access |-> NULL, progress_msg |-> NoMsg ]

KeyOf(r) == << r.type, r.swhid >>

\* WHERE type = %s AND swhid = %s
RowsOf(k) == { r \in vault_bundle : KeyOf(r) = k }

\* cur.fetchone() of progress(): the row of the key, or None.
progress(k) ==
    IF RowsOf(k) = {} THEN NoRow ELSE CHOOSE r \in RowsOf(k) : TRUE

\* cooker.check_exists(): the object is in the storage.
check_exists(k) == k[2] \in StorageObjs

\* The unique index on (type, swhid) rejects the INSERT of create_task:
\* psycopg2.IntegrityError (a unique violation).
UniqueViolation_NoIndex(k) == FALSE
UniqueViolation(k) == RowsOf(k) # {}

\* VaultCache.is_cached
is_cached(k) == cache[k] # NoBlob

\* is_available(): the row is done and the cache holds the bundle.
is_available_StatusOnly(k) ==
    /\ progress(k) # NoRow
    /\ progress(k).task_status = "done"
is_available(k) ==
    /\ progress(k) # NoRow
    /\ progress(k).task_status = "done"
    /\ is_cached(k)

\* The rows a DELETE FROM vault_bundle removes take their notification and
\* batch membership rows with them (the foreign keys cascade).
Cascade(rows, table) ==
    { x \in table : x.bundle_id \notin { r.id : r \in rows } }

-----------------------------------------------------------------------------
(* Callers. *)

\* The local variables of a call; what a finished call leaves is its
\* outcome: ret (a row), data (bytes), batch_id, or exc (the exception).
\* info0, tasks0, expired and uncached are history: the row cook read
\* first, the number of tasks of the key when the call started, the rows
\* an expiration deleted and the keys whose bundle it removed; rows0 and
\* sent0 are the rows of the keys of a batch and the number of their tasks
\* when batch_cook started; notifs0 are the subscriptions send_notif read.
Idle ==
    [ pc |-> "idle", op |-> "none", key |-> <<"", "">>, sticky |-> FALSE,
      email |-> NoEmail, raise_notfound |-> FALSE, info |-> NoRow,
      info0 |-> NoRow, tasks0 |-> NULL, nested |-> FALSE, task_id |-> NULL,
      now |-> NULL, batch |-> {}, batch_new |-> {}, batch_id |-> NULL,
      expired |-> {}, uncached |-> {}, rows0 |-> {}, sent0 |-> << >>,
      notifs |-> {}, notifs0 |-> {},
      task_ids |-> << >>, ret |-> NoRow, data |-> NoBlob, exc |-> "none" ]

TypeOK ==
    /\ \A r \in vault_bundle :
          /\ KeyOf(r) \in AllKeys
          /\ r.task_status \in Statuses
          /\ r.sticky \in BOOLEAN
    /\ \A k \in AllKeys : cache[k] \in Blobs \cup {NoBlob}
    /\ \A p \in Procs : proc[p].pc \in
          { "idle", "cook_delete", "create_task", "send_task", "update_task",
            "cook_email", "cook_progress", "fetch_update",
            "batch_send", "batch_update", "notif_send" }

\* No cooker runs.
NoCooker == [ pc |-> "off" ]

\* The backend after construction, with calls still to come.
InitWith(calls) ==
    /\ cooker = NoCooker
    /\ vault_bundle = {}
    /\ vault_notif_email = {}
    /\ vault_batch = {}
    /\ vault_batch_bundle = {}
    /\ cache = [ k \in AllKeys |-> NoBlob ]
    /\ tasks = [ k \in AllKeys |-> 0 ]
    /\ outbox = << >>
    /\ seq = [ bundle |-> 1, notif |-> 1, batch |-> 1 ]
    /\ clock = 1
    /\ proc = [ p \in Procs |-> Idle ]
    /\ ncalls = calls

\* A caller starts a call: it is between calls and the budget allows it.
Starts(p) ==
    /\ proc[p].pc = "idle"
    /\ ncalls > 0
    /\ ncalls' = ncalls - 1

\* The call goes on with local variables c.  A step of a backend call is
\* no step of a cooker.
Goto(p, c) ==
    /\ proc' = [ proc EXCEPT ![p] = c ]
    /\ UNCHANGED cooker

\* The call returns (or raises exc): c carries its outcome.
Return(p, c) ==
    /\ proc' = [ proc EXCEPT ![p] = [ c EXCEPT !.pc = "idle" ] ]
    /\ UNCHANGED cooker

Raise(p, c, exc) ==
    /\ proc' = [ proc EXCEPT ![p] = [ c EXCEPT !.pc = "idle", !.exc = exc ] ]
    /\ UNCHANGED cooker

-----------------------------------------------------------------------------
(* create_task: check_exists, INSERT + commit, _send_task, UPDATE task_id. *)

\* The part of create_task up to db.conn.commit(), run with locals c.
CreateTask_Insert(p, c) ==
    IF ~ check_exists(c.key)
    THEN /\ Raise(p, c, "NotFoundExc")
         /\ UNCHANGED << vault_bundle, seq, clock >>
    ELSE IF UniqueViolation(c.key)
    THEN /\ Raise(p, c, "UniqueViolation")
         /\ UNCHANGED << vault_bundle, seq, clock >>
    ELSE /\ vault_bundle' = vault_bundle \cup
                { NewRow(seq.bundle, c.key, c.sticky, clock) }
         /\ seq' = [ seq EXCEPT !.bundle = @ + 1 ]
         /\ clock' = clock + 1
         /\ Goto(p, [ c EXCEPT !.pc = "send_task" ])

\* create_task called by a client.
CreateTask(p, k, sticky) ==
    /\ Starts(p)
    /\ CreateTask_Insert(p, [ Idle EXCEPT !.op = "create_task", !.key = k,
                                          !.sticky = sticky ])
    /\ UNCHANGED << vault_notif_email, vault_batch, vault_batch_bundle,
                    cache, tasks, outbox >>

\* create_task called by cook (info is None).
Cook_CreateTask(p) ==
    /\ proc[p].pc = "create_task"
    /\ CreateTask_Insert(p, proc[p])
    /\ UNCHANGED << vault_notif_email, vault_batch, vault_batch_bundle,
                    cache, tasks, outbox, ncalls >>

\* _send_task: the scheduler creates one task for the key and returns its
\* id, here the task's rank among the tasks of the key.
CreateTask_SendTask(p) ==
    /\ proc[p].pc = "send_task"
    /\ tasks' = [ tasks EXCEPT ![proc[p].key] = @ + 1 ]
    /\ Goto(p, [ proc[p] EXCEPT !.pc = "update_task",
                                !.task_id = tasks[proc[p].key] + 1 ])
    /\ UNCHANGED << vault_bundle, vault_notif_email, vault_batch,
                    vault_batch_bundle, cache, outbox, seq, clock, ncalls >>

\* _send_task: scheduler.create_tasks raises; the row stays as inserted.
CreateTask_SendTaskFails(p) ==
    /\ proc[p].pc = "send_task"
    /\ Raise(p, proc[p], "SchedulerError")
    /\ UNCHANGED << vault_bundle, vault_notif_email, vault_batch,
                    vault_batch_bundle, cache, tasks, outbox, seq, clock,
                    ncalls >>

\* After create_task, cook goes on with the e-mail, or with its result;
\* a client's create_task returns nothing.
AfterCreateTask(c) ==
    IF ~ c.nested THEN Idle
    ELSE [ c EXCEPT !.pc = IF c.email # NoEmail
                           THEN "cook_email" ELSE "cook_progress" ]

\* UPDATE vault_bundle SET task_id = %s WHERE type = %s AND swhid = %s
CreateTask_UpdateTaskId(p) ==
    /\ proc[p].pc = "update_task"
    /\ vault_bundle' = { IF KeyOf(r) = proc[p].key
                         THEN [ r EXCEPT !.task_id = proc[p].task_id ]
                         ELSE r : r \in vault_bundle }
    /\ Goto(p, AfterCreateTask(proc[p]))
    /\ UNCHANGED << vault_notif_email, vault_batch, vault_batch_bundle,
                    cache, tasks, outbox, seq, clock, ncalls >>

-----------------------------------------------------------------------------
(* cook *)

\* Where cook goes after reading info = progress(...).
Cook_Dispatch_RetryAlways(info, email) ==
    IF info # NoRow /\ info.task_status = "failed" THEN "cook_delete"
    ELSE IF email # NoEmail THEN "cook_email" ELSE "create_task"
Cook_Dispatch_NoRetry(info, email) ==
    IF info = NoRow THEN "create_task"
    ELSE IF email # NoEmail THEN "cook_email" ELSE "cook_progress"
Cook_Dispatch(info, email) ==
    IF info # NoRow /\ info.task_status = "failed" THEN "cook_delete"
    ELSE IF info = NoRow THEN "create_task"
    ELSE IF email # NoEmail THEN "cook_email" ELSE "cook_progress"

\* cook reads the row, then rejects an unknown bundle type.
Cook(p, k, sticky, email) ==
    /\ Starts(p)
    /\ LET c == [ Idle EXCEPT !.op = "cook", !.key = k, !.sticky = sticky,
                              !.email = email, !.nested = TRUE,
                              !.info = progress(k), !.info0 = progress(k),
                              !.tasks0 = tasks[k] ]
       IN  IF k[1] \notin COOKER_TYPES
           THEN Raise(p, c, "NotFoundExc")
           ELSE Goto(p, [ c EXCEPT !.pc = Cook_Dispatch(c.info, email) ])
    /\ UNCHANGED << vault_bundle, vault_notif_email, vault_batch,
                    vault_batch_bundle, cache, tasks, outbox, seq, clock >>

\* DELETE FROM vault_bundle WHERE type = %s AND swhid = %s; commit
Cook_DeleteFailed(p) ==
    /\ proc[p].pc = "cook_delete"
    /\ vault_bundle' = vault_bundle \ RowsOf(proc[p].key)
    /\ vault_notif_email' = Cascade(RowsOf(proc[p].key), vault_notif_email)
    /\ vault_batch_bundle' = Cascade(RowsOf(proc[p].key), vault_batch_bundle)
    /\ Goto(p, [ proc[p] EXCEPT !.pc = "create_task", !.info = NoRow ])
    /\ UNCHANGED << vault_batch, cache, tasks, outbox, seq, clock, ncalls >>

\* What becomes of a message given to _smtp_send: the server takes it
\* ("sent"); the server does not answer NOOP with 250, or send_message
\* raises an SMTPException, which is logged ("logged"); or smtplib.SMTP()
\* cannot connect to the configured host and raises ("raised").
SmtpOutcomes == {"sent", "logged", "raised"}

\* _smtp_send: outbox keeps every message given to it, with the id of the
\* subscription it answers (NULL for cook) and what became of it.
smtp_send(out, n_id, email, k, status) ==
    outbox' = Append(outbox, [ n_id |-> n_id, email |-> email, key |-> k,
                               status |-> status, result |-> out ])

\* if info is not None and info["task_status"] == "done"
NotifyNow_NotNew(info) ==
    info # NoRow /\ info.task_status \in {"done", "pending"}

NotifyNow(info) == info # NoRow /\ info.task_status = "done"

\* The e-mail of cook: sent at once for a done bundle, else subscribed.
Cook_Email(p) ==
    /\ proc[p].pc = "cook_email"
    /\ LET c == proc[p]
       IN  IF NotifyNow(c.info)
           THEN /\ \E out \in SmtpOutcomes :
                      /\ smtp_send(out, NULL, c.email, c.key,
                                   c.info.task_status)
                      /\ IF out = "raised"
                         THEN Raise(p, c, "ConnectionRefusedError")
                         ELSE Goto(p, [ c EXCEPT !.pc = "cook_progress" ])
                /\ UNCHANGED << vault_notif_email, seq >>
           ELSE IF RowsOf(c.key) = {}
           THEN \* bundle_id is NULL: the INSERT violates NOT NULL
                /\ Raise(p, c, "NotNullViolation")
                /\ UNCHANGED << vault_notif_email, seq, outbox >>
           ELSE /\ vault_notif_email' = vault_notif_email \cup
                      { [ id |-> seq.notif, email |-> c.email,
                          bundle_id |-> progress(c.key).id ] }
                /\ seq' = [ seq EXCEPT !.notif = @ + 1 ]
                /\ Goto(p, [ c EXCEPT !.pc = "cook_progress" ])
                /\ UNCHANGED outbox
    /\ UNCHANGED << vault_bundle, vault_batch, vault_batch_bundle, cache,
                    tasks, clock, ncalls >>

\* return self.progress(bundle_type, swhid)
Cook_Progress(p) ==
    /\ proc[p].pc = "cook_progress"
    /\ IF progress(proc[p].key) = NoRow
       THEN Raise(p, proc[p], "NotFoundExc")
       ELSE Return(p, [ proc[p] EXCEPT !.ret = progress(proc[p].key) ])
    /\ UNCHANGED << vault_bundle, vault_notif_email, vault_batch,
                    vault_batch_bundle, cache, tasks, outbox, seq, clock,
                    ncalls >>

-----------------------------------------------------------------------------
(* The cooker's callbacks: set_status, set_progress, put_bundle. *)

\* UPDATE vault_bundle SET task_status = %s [, ts_done = NOW()] WHERE ...
set_status_row_KeepTsDone(r, status, now) ==
    [ r EXCEPT !.task_status = status ]
set_status_row(r, status, now) ==
    [ r EXCEPT !.task_status = status,
               !.ts_done = IF status = "done" THEN now ELSE @ ]

SetStatus(p, k, status) ==
    /\ Starts(p)
    /\ vault_bundle' = { IF KeyOf(r) = k
                         THEN set_status_row(r, status, clock)
                         ELSE r : r \in vault_bundle }
    /\ clock' = IF status = "done" /\ RowsOf(k) # {} THEN clock + 1 ELSE clock
    /\ Return(p, Idle)
    /\ UNCHANGED << vault_notif_email, vault_batch, vault_batch_bundle,
                    cache, tasks, outbox, seq >>

\* UPDATE vault_bundle SET progress_msg = %s WHERE ...
SetProgress(p, k, msg) ==
    /\ Starts(p)
    /\ vault_bundle' = { IF KeyOf(r) = k
                         THEN [ r EXCEPT !.progress_msg = msg ]
                         ELSE r : r \in vault_bundle }
    /\ Return(p, Idle)
    /\ UNCHANGED << vault_notif_email, vault_batch, vault_batch_bundle,
                    cache, tasks, outbox, seq, clock >>

\* VaultCache.add: the bundle is stored under the key, replacing what the
\* key held.
cache_add(k, bundle) == [ cache EXCEPT ![k] = bundle ]

\* VaultCache.delete
cache_delete(c, k) == [ c EXCEPT ![k] = NoBlob ]

PutBundle(p, k, bundle) ==
    /\ Starts(p)
    /\ cache' = cache_add(k, bundle)
    /\ Return(p, Idle)
    /\ UNCHANGED << vault_bundle, vault_notif_email, vault_batch,
                    vault_batch_bundle, tasks, outbox, seq, clock >>

-----------------------------------------------------------------------------
(* fetch and update_access_ts *)

\* UPDATE vault_bundle SET ts_last_access = NOW() WHERE ...
update_access_ts_Stale(k, now) ==
    { IF KeyOf(r) = k THEN [ r EXCEPT !.ts_last_access = r.ts_created ]
      ELSE r : r \in vault_bundle }
update_access_ts(k, now) ==
    { IF KeyOf(r) = k THEN [ r EXCEPT !.ts_last_access = now ]
      ELSE r : r \in vault_bundle }

UpdateAccessTs(p, k) ==
    /\ Starts(p)
    /\ vault_bundle' = update_access_ts(k, clock)
    /\ clock' = IF RowsOf(k) # {} THEN clock + 1 ELSE clock
    /\ Return(p, Idle)
    /\ UNCHANGED << vault_notif_email, vault_batch, vault_batch_bundle,
                    cache, tasks, outbox, seq >>

\* fetch opens its transaction (NOW() is the time of its first statement)
\* and asks is_available.
Fetch(p, k, raise_notfound) ==
    /\ Starts(p)
    /\ LET c == [ Idle EXCEPT !.op = "fetch", !.key = k,
                              !.raise_notfound = raise_notfound,
                              !.info = progress(k) ]
       IN  IF ~ is_available(k)
           THEN /\ IF raise_notfound
                   THEN Raise(p, c, "NotFoundExc")
                   ELSE Return(p, c)
                /\ UNCHANGED clock
           ELSE /\ Goto(p, [ c EXCEPT !.pc = "fetch_update", !.now = clock ])
                /\ clock' = clock + 1
    /\ UNCHANGED << vault_bundle, vault_notif_email, vault_batch,
                    vault_batch_bundle, cache, tasks, outbox, seq >>

\* update_access_ts(cur=cur), then cache.get; an exception of cache.get
\* rolls the UPDATE back.
Fetch_UpdateAccessTs(p) ==
    /\ proc[p].pc = "fetch_update"
    /\ IF is_cached(proc[p].key)
       THEN /\ vault_bundle' = update_access_ts(proc[p].key, proc[p].now)
            /\ Return(p, [ proc[p] EXCEPT !.data = cache[proc[p].key] ])
       ELSE /\ Raise(p, proc[p], "ObjNotFoundError")
            /\ UNCHANGED vault_bundle
    /\ UNCHANGED << vault_notif_email, vault_batch, vault_batch_bundle,
                    cache, tasks, outbox, seq, clock, ncalls >>

-----------------------------------------------------------------------------
(* Expiration: _cache_expire, cache_expire_oldest, cache_expire_until. *)

\* The column ts_<by> of a row.
ts(r, by) ==
    CASE by = "created" -> r.ts_created
      [] by = "done" -> r.ts_done
      [] by = "last_access" -> r.ts_last_access

\* ORDER BY ts_<by>: ascending, NULL last.
OrderedBefore(a, b, by) ==
    \/ ts(b, by) = NULL
    \/ ts(a, by) # NULL /\ ts(a, by) <= ts(b, by)

\* SELECT ctid FROM vault_bundle WHERE sticky = false
Expirable_All == vault_bundle
Expirable == { r \in vault_bundle : ~ r.sticky }

\* ... ORDER BY ts_<by> LIMIT n: any n first rows of the order.
OldestSets_Any(n, by) ==
    { V \in SUBSET Expirable : Cardinality(V) <= n /\ V # {} }
OldestSets(n, by) ==
    LET rows == Expirable
        limit == IF n < Cardinality(rows) THEN n ELSE Cardinality(rows)
    IN  { V \in SUBSET rows :
            /\ Cardinality(V) = limit
            /\ \A a \in V : \A b \in rows \ V : OrderedBefore(a, b, by) }

\* ... AND ts_<by> <= %s
UntilSet_Strict(date, by) ==
    { r \in Expirable : ts(r, by) # NULL /\ ts(r, by) < date }
UntilSet(date, by) ==
    { r \in Expirable : ts(r, by) # NULL /\ ts(r, by) <= date }

\* cache.delete for every row the DELETE returned.
RECURSIVE cache_delete_all(_, _)
cache_delete_all(c, rows) ==
    IF rows = {} THEN c
    ELSE LET r == CHOOSE x \in rows : TRUE
         IN  cache_delete_all(cache_delete(c, KeyOf(r)), rows \ {r})

\* _cache_expire: DELETE ... RETURNING type, swhid, then the cache.
cache_expire(p, c, V) ==
    /\ vault_bundle' = vault_bundle \ V
    /\ vault_notif_email' = Cascade(V, vault_notif_email)
    /\ vault_batch_bundle' = Cascade(V, vault_batch_bundle)
    /\ cache' = cache_delete_all(cache, V)
    /\ Return(p, [ c EXCEPT !.expired = V,
                            !.uncached = { k \in { KeyOf(r) : r \in V } :
                                             is_cached(k) } ])
    /\ UNCHANGED << vault_batch, tasks, outbox, seq, clock >>

CacheExpireOldest(p, n, by) ==
    /\ Starts(p)
    /\ \E V \in OldestSets(n, by) :
          cache_expire(p, [ Idle EXCEPT !.op = "cache_expire_oldest" ], V)

\* The cutoff dates that tell calls of cache_expire_until apart: the
\* timestamps ts_<by> in the table, and one before all of them.
Cutoffs(by) == {0} \cup { ts(r, by) : r \in vault_bundle }

CacheExpireUntil(p, date, by) ==
    /\ Starts(p)
    /\ cache_expire(p, [ Idle EXCEPT !.op = "cache_expire_until" ],
                    UntilSet(date, by))

-----------------------------------------------------------------------------
(* batch_cook *)

\* The ids the sequence gives the rows inserted for the keys ks.
NewIds(ks) ==
    CHOOSE f \in [ ks -> seq.bundle .. seq.bundle + Cardinality(ks) - 1 ] :
        \A a, b \in ks : a # b => f[a] # f[b]

\* The DELETE without the condition on the key.
BatchFailed_AnyKey(batch) ==
    { r \in vault_bundle : r.task_status = "failed" }

\* DELETE FROM vault_bundle WHERE task_status = 'failed'
\*   AND (type, swhid) IN batch
BatchFailed(batch) ==
    { r \in vault_bundle : r.task_status = "failed" /\ KeyOf(r) \in batch }

\* INSERT INTO vault_bundle (type, swhid) VALUES batch
\*   ON CONFLICT DO NOTHING: the keys that get a row.
BatchInserted_NoConflict(batch) == batch

BatchInserted(batch) ==
    { k \in batch : \A r \in vault_bundle \ BatchFailed(batch) : KeyOf(r) # k }

\* batch_cook with the commit moved in front of the INSERT of the
\* batch-bundle entries, and an error after it.
BatchCook_CommitBeforeEntries(p, batch) ==
    /\ Starts(p)
    /\ LET c == [ Idle EXCEPT
                    !.op = "batch_cook", !.batch = batch,
                    !.rows0 = { r \in vault_bundle : KeyOf(r) \in batch },
                    !.sent0 = [ k \in batch |-> tasks[k] ] ]
           ids == NewIds(BatchInserted(batch))
           rows == (vault_bundle \ BatchFailed(batch)) \cup
                   { NewRow(ids[k], k, FALSE, clock) :
                       k \in BatchInserted(batch) }
       IN  IF \E k \in batch : k[1] \notin COOKER_TYPES
           THEN /\ Raise(p, c, "NotFoundExc")
                /\ UNCHANGED << vault_bundle, vault_notif_email, vault_batch,
                                vault_batch_bundle, seq, clock >>
           ELSE /\ vault_batch' = vault_batch \cup { seq.batch }
                /\ vault_bundle' = rows
                /\ vault_notif_email' =
                       Cascade(BatchFailed(batch), vault_notif_email)
                /\ vault_batch_bundle' =
                       Cascade(BatchFailed(batch), vault_batch_bundle)
                /\ seq' = [ seq EXCEPT
                              !.batch = @ + 1,
                              !.bundle = @ + Cardinality(BatchInserted(batch)) ]
                /\ clock' = IF BatchInserted(batch) # {}
                            THEN clock + 1 ELSE clock
                /\ Raise(p, [ c EXCEPT !.batch_id = seq.batch ],
                         "DatabaseError")
    /\ UNCHANGED << cache, tasks, outbox >>

\* The first transaction of batch_cook, up to db.conn.commit(): the batch,
\* the rows and the batch-bundle entries.
BatchCook(p, batch) ==
    /\ Starts(p)
    /\ LET c == [ Idle EXCEPT
                    !.op = "batch_cook", !.batch = batch,
                    !.rows0 = { r \in vault_bundle : KeyOf(r) \in batch },
                    !.sent0 = [ k \in batch |-> tasks[k] ] ]
           ids == NewIds(BatchInserted(batch))
           rows == (vault_bundle \ BatchFailed(batch)) \cup
                   { NewRow(ids[k], k, FALSE, clock) :
                       k \in BatchInserted(batch) }
           bundles == { r \in rows : KeyOf(r) \in batch }
           batch_new == { KeyOf(r) : r \in { b \in bundles :
                                               b.task_id = NULL } }
       IN  IF \E k \in batch : k[1] \notin COOKER_TYPES
           THEN /\ Raise(p, c, "NotFoundExc")
                /\ UNCHANGED << vault_bundle, vault_notif_email, vault_batch,
                                vault_batch_bundle, seq, clock >>
           ELSE /\ vault_batch' = vault_batch \cup { seq.batch }
                /\ vault_bundle' = rows
                /\ vault_notif_email' =
                       Cascade(BatchFailed(batch), vault_notif_email)
                /\ vault_batch_bundle' =
                       Cascade(BatchFailed(batch), vault_batch_bundle) \cup
                       { [ batch_id |-> seq.batch, bundle_id |-> r.id ] :
                           r \in bundles }
                /\ seq' = [ seq EXCEPT
                              !.batch = @ + 1,
                              !.bundle = @ + Cardinality(BatchInserted(batch)) ]
                /\ clock' = IF BatchInserted(batch) # {}
                            THEN clock + 1 ELSE clock
                /\ Goto(p, [ c EXCEPT !.pc = "batch_send",
                                      !.batch_id = seq.batch,
                                      !.batch_new = batch_new ])
    /\ UNCHANGED << cache, tasks, outbox >>

\* scheduler.create_tasks(tasks): one task for every key of batch_new.
BatchCook_SendTasks(p) ==
    /\ proc[p].pc = "batch_send"
    /\ tasks' = [ k \in AllKeys |->
                    IF k \in proc[p].batch_new THEN tasks[k] + 1
                    ELSE tasks[k] ]
    /\ Goto(p, [ proc[p] EXCEPT
                   !.pc = "batch_update",
                   !.task_ids = [ k \in proc[p].batch_new |-> tasks[k] + 1 ] ])
    /\ UNCHANGED << vault_bundle, vault_notif_email, vault_batch,
                    vault_batch_bundle, cache, outbox, seq, clock, ncalls >>

\* scheduler.create_tasks(tasks) raises: the transaction of the batch, its
\* rows and its entries is committed already, and batch_cook ends with the
\* error of the scheduler.
BatchCook_SendTasksFails(p) ==
    /\ proc[p].pc = "batch_send"
    /\ Raise(p, proc[p], "SchedulerError")
    /\ UNCHANGED << vault_bundle, vault_notif_email, vault_batch,
                    vault_batch_bundle, cache, tasks, outbox, seq, clock,
                    ncalls >>

\* UPDATE vault_bundle SET task_id = s_task_id FROM (VALUES ...) WHERE ...
BatchCook_UpdateTaskIds(p) ==
    /\ proc[p].pc = "batch_update"
    /\ vault_bundle' = { IF KeyOf(r) \in proc[p].batch_new
                         THEN [ r EXCEPT !.task_id = proc[p].task_ids[KeyOf(r)] ]
                         ELSE r : r \in vault_bundle }
    /\ Return(p, proc[p])
    /\ UNCHANGED << vault_notif_email, vault_batch, vault_batch_bundle,
                    cache, tasks, outbox, seq, clock, ncalls >>

-----------------------------------------------------------------------------
(* send_notif and send_notification *)

\* SELECT vault_notif_email.id AS id, email, task_status, progress_msg
\* FROM vault_notif_email INNER JOIN vault_bundle ON bundle_id = ...
Subscriptions(k) ==
    { [ id |-> x[1].id, email |-> x[1].email,
        task_status |-> x[2].task_status, progress_msg |-> x[2].progress_msg ] :
      x \in { y \in vault_notif_email \X RowsOf(k) :
                y[1].bundle_id = y[2].id } }

\* send_notif reads the subscriptions of the key.
SendNotif(p, k) ==
    /\ Starts(p)
    /\ LET c == [ Idle EXCEPT !.op = "send_notif", !.key = k,
                              !.notifs = Subscriptions(k),
                              !.notifs0 = Subscriptions(k) ]
       IN  IF Subscriptions(k) = {}
           THEN Return(p, c)
           ELSE Goto(p, [ c EXCEPT !.pc = "notif_send" ])
    /\ UNCHANGED << vault_bundle, vault_notif_email, vault_batch,
                    vault_batch_bundle, cache, tasks, outbox, seq, clock >>

\* send_notification for one of the subscriptions read, in the order the
\* SELECT gave them (any): RuntimeError unless the status read is done or
\* failed; else the message goes to _smtp_send and the subscription is
\* deleted, in a transaction of its own.
SendNotif_Send(p) ==
    /\ proc[p].pc = "notif_send"
    /\ \E d \in proc[p].notifs :
          LET c == [ proc[p] EXCEPT !.notifs = @ \ {d} ]
          IN  IF d.task_status \notin {"done", "failed"}
              THEN /\ Raise(p, proc[p], "RuntimeError")
                   /\ UNCHANGED << vault_notif_email, outbox >>
              ELSE \E out \in SmtpOutcomes :
                      /\ smtp_send(out, d.id, d.email, proc[p].key,
                                   d.task_status)
                      /\ IF out = "raised"
                         THEN /\ Raise(p, proc[p], "ConnectionRefusedError")
                              /\ UNCHANGED vault_notif_email
                         ELSE /\ vault_notif_email' =
                                    { n \in vault_notif_email : n.id # d.id }
                              /\ IF c.notifs = {}
                                 THEN Return(p, c)
                                 ELSE Goto(p, c)
    /\ UNCHANGED << vault_bundle, vault_batch, vault_batch_bundle, cache,
                    tasks, seq, clock, ncalls >>

-----------------------------------------------------------------------------
(* batch_progress *)

\* SELECT ... FROM vault_batch_bundle LEFT JOIN vault_bundle ...
\*   WHERE batch_id = %s
BatchMembers(batch_id) ==
    { bb \in vault_batch_bundle : bb.batch_id = batch_id }

\* batch_progress: no member, NotFoundExc; else the counter reads
\* b["status"] of a row, which has no such column: KeyError.
BatchProgress(p, batch_id) ==
    /\ Starts(p)
    /\ LET c == [ Idle EXCEPT !.op = "batch_progress", !.batch_id = batch_id,
                              !.rows0 = BatchMembers(batch_id) ]
       IN  IF BatchMembers(batch_id) = {}
           THEN Raise(p, c, "NotFoundExc")
           ELSE Raise(p, c, "KeyError")
    /\ UNCHANGED << vault_bundle, vault_notif_email, vault_batch,
                    vault_batch_bundle, cache, tasks, outbox, seq, clock >>

-----------------------------------------------------------------------------
(* GitBareCooker: the objects of the archive. *)

\* The object graph of test_graph_revisions, without dir3, dir4, cnt3 and
\* cnt4: rev2 has parent rev1; dir2 holds the files of dir1 and dir1
\* itself; rel2 tags rev2, rel3 tags a content and rel4 tags rel3.  Added
\* to it: rev3, a revision on top of rev2 with the directory of rev2, a
\* second snapshot snp2 and rel5, a release that tags it.
Contents == {"cnt1", "cnt2"}
Directories == {"dir1", "dir2"}
Revisions == {"rev1", "rev2", "rev3"}
Releases == {"rel2", "rel3", "rel4", "rel5"}
Snapshots == {"snp"}
OtherSnapshots == {"snp2"}
\* The revision of another repository that a submodule entry names.
Submodules == {"rev0"}
Objects ==
    Contents \cup Directories \cup Revisions \cup Releases \cup Submodules

\* The revision that write_refs makes for a directory root.
SyntheticRevision == "synthetic"

parents ==
    [ r \in Revisions |->
        CASE r = "rev1" -> {}
          [] r = "rev2" -> {"rev1"}
          [] r = "rev3" -> {"rev2"} ]

directory == [ r \in Revisions |-> IF r = "rev1" THEN "dir1" ELSE "dir2" ]

\* The entries of a directory of type file and of type dir.
files == [ d \in Directories |->
             IF d = "dir1" THEN {"cnt1"} ELSE {"cnt1", "cnt2"} ]

subdirs == [ d \in Directories |-> IF d = "dir2" THEN {"dir1"} ELSE {} ]

\* The entries of a directory of type rev: dir2 has a submodule.
submodules == [ d \in Directories |-> IF d = "dir2" THEN {"rev0"} ELSE {} ]

\* directory_get_entries: the entries of a directory.
entries(d) ==
    { [ type |-> "file", target |-> o ] : o \in files[d] }
        \cup { [ type |-> "dir", target |-> o ] : o \in subdirs[d] }
        \cup { [ type |-> "rev", target |-> o ] : o \in submodules[d] }

release_target ==
    [ t \in Releases |->
        CASE t = "rel2" -> "rev2"
          [] t = "rel3" -> "cnt2"
          [] t = "rel4" -> "rel3"
          [] t = "rel5" -> "snp2" ]

\* A revision and the revisions of its history.
RECURSIVE Ancestors(_)
Ancestors(r) == {r} \cup UNION { Ancestors(q) : q \in parents[r] }

\* A branch of the snapshot: a target, an alias of the next branch, or a
\* dangling branch (None).
Alias == "alias"
Dangling == "dangling"
BranchTargets ==
    {"rev1", "rev3", "dir2", "cnt2"} \cup Releases \cup OtherSnapshots
        \cup {Alias, Dangling}

\* What the graph can know: nothing, the old revision, all the revisions,
\* or everything up to the snapshot.
Graphs ==
    { {}, {"rev1"}, Revisions, Revisions \cup Snapshots }

\* What can be wrong with the archive: nothing; cnt2 has no record in the
\* storage, is hidden, or is visible without data in the object
\* storage; or the storage has no record of one revision, release or
\* directory.
ContentDefects == {"norecord", "hidden", "nodata"}
Defects ==
    { [ content |-> s, missing |-> {} ] : s \in {"visible"} \cup ContentDefects }
        \cup { [ content |-> "visible", missing |-> {o} ] :
                 o \in Revisions \cup Directories \cup {"rel2"} }

\* graph.visit_nodes(snp, edges="snp:*,rel:*,rev:rev") from one branch
\* target: releases to their targets, revisions to their parents.
RECURSIVE VisitNodes(_)
VisitNodes(n) ==
    IF n \in Revisions THEN Ancestors(n)
    ELSE IF n \in Releases THEN {n} \cup VisitNodes(release_target[n])
    ELSE IF n \in {Alias, Dangling} THEN {}
    ELSE {n}

\* A set as a list, in some order.
RECURSIVE SetToSeq(_)
SetToSeq(S) ==
    IF S = {} THEN << >>
    ELSE LET x == CHOOSE y \in S : TRUE
         IN  << x >> \o SetToSeq(S \ {x})

\* The elements of a list.
Range(s) == { s[i] : i \in DOMAIN s }

\* How often the id is in the list.
Count(s, o) == Cardinality({ i \in DOMAIN s : s[i] = o })

-----------------------------------------------------------------------------
(* GitBareCooker: prepare_bundle. *)

\* prepare_bundle: empty stacks, nothing seen, no walker state.
NewCooker(obj_id, branches, has_graph, graph, defect) ==
    [ pc |-> "push_subgraph", obj_id |-> obj_id, branches |-> branches,
      has_graph |-> has_graph, graph |-> graph, defect |-> defect,
      todo |-> << >>,
      rel_stack |-> << >>, rev_stack |-> << >>, dir_stack |-> << >>,
      cnt_stack |-> << >>,
      seen |-> {}, walker_state |-> {}, walks |-> 0,
      fetched |-> [ o \in Objects |-> 0 ],
      written |-> [ o \in Objects \cup {SyntheticRevision} |-> 0 ],
      placeholders |-> {}, expected_fsck_errors |-> {}, unexpected |-> {},
      refs |-> {}, repacked |-> FALSE, archive |-> FALSE, exc |-> "none",
      steps |-> << >>, batch |-> << >> ]

\* _push: the ids of the list that are not seen yet go on the stack, each
\* as often as the list has it, and are seen from now on.
push(c, stack, obj_ids) ==
    LET revision_ids == SelectSeq(obj_ids, LAMBDA id : id \notin c.seen)
    IN  [ c EXCEPT !.seen = @ \cup Range(revision_ids),
                   ![stack] = @ \o revision_ids ]

\* storage.*_get for the ids of the list.
fetch(c, obj_ids) ==
    [ c EXCEPT !.fetched = [ o \in DOMAIN @ |-> @[o] + Count(obj_ids, o) ] ]

\* write_object for the ids of the list.
write_object(c, obj_ids) ==
    [ c EXCEPT !.written = [ o \in DOMAIN @ |-> @[o] + Count(obj_ids, o) ] ]

\* The ids of the list that the storage has a record of.
filter_None(c, obj_ids) ==
    SelectSeq(obj_ids, LAMBDA id : id \notin c.defect.missing)

\* The call ends with an exception.
Fail(c, exc) == [ c EXCEPT !.pc = "failed", !.exc = exc ]

\* DFSRevisionsWalker(storage, obj_id, state=_walker_state): the history
\* of obj_id without the revisions of the state; each one is written at
\* once and its directory pushed.
walk(c, obj_id) ==
    LET revs == SetToSeq(Ancestors(obj_id) \ c.walker_state)
        w == [ c EXCEPT !.walker_state = @ \cup Ancestors(obj_id),
                        !.walks = @ + 1 ]
    IN  push(write_object(fetch(w, revs), revs), "dir_stack",
             SetToSeq({ directory[r] : r \in Range(revs) }))

\* push_revision_subgraph: the history from the graph if it knows the
\* revision (GraphArgumentException if not), else from the walker.
push_revision_subgraph_AlwaysWalk(c, obj_id) ==
    walk(c, obj_id)

push_revision_subgraph(c, obj_id) ==
    IF c.has_graph /\ obj_id \in c.graph
    THEN push(c, "rev_stack", SetToSeq(Ancestors(obj_id)))
    ELSE walk(c, obj_id)

\* load_releases: release_get, and write_release_node of those found.
load_releases(c, obj_ids) ==
    write_object(fetch(c, obj_ids), filter_None(c, obj_ids))

\* push_releases_subgraphs([obj_id]): load_releases, then the target of
\* each release found.
RECURSIVE push_releases_subgraphs(_, _)
push_releases_subgraphs(c, obj_id) ==
    LET l == load_releases(c, << obj_id >>)
        target == release_target[obj_id]
    IN  IF obj_id \in c.defect.missing THEN l
        ELSE IF target \in Revisions THEN push_revision_subgraph(l, target)
        ELSE IF target \in Directories
        THEN push(l, "dir_stack", << target >>)
        ELSE IF target \in Contents THEN push(l, "cnt_stack", << target >>)
        ELSE IF target \in Releases THEN push_releases_subgraphs(l, target)
        ELSE Fail(l, "NotImplementedError")

\* The names of the branches of the snapshot.
BranchNames ==
    << "refs/heads/b1", "refs/heads/b2", "refs/heads/b3", "refs/heads/b4" >>

\* The branch that an alias at place i names: the next one.
AliasTarget(c, i) == BranchNames[(i % Len(c.branches)) + 1]

\* write_refs(snapshot): a ref for every branch that is not dangling, a
\* symbolic one ("ref: <name>") for an alias.
snapshot_refs_AliasResolved(c) ==
    { [ name |-> BranchNames[i],
        symbolic |-> FALSE,
        target |-> IF c.branches[i] = Alias
                   THEN c.branches[(i % Len(c.branches)) + 1]
                   ELSE c.branches[i] ] :
      i \in { j \in DOMAIN c.branches : c.branches[j] # Dangling } }

snapshot_refs(c) ==
    { [ name |-> BranchNames[i],
        symbolic |-> c.branches[i] = Alias,
        target |-> IF c.branches[i] = Alias THEN AliasTarget(c, i)
                   ELSE c.branches[i] ] :
      i \in { j \in DOMAIN c.branches : c.branches[j] # Dangling } }

\* push_snapshot_subgraph with a graph that knows the snapshot: all that
\* visit_nodes returns goes on the stacks; a snapshot among the nodes
\* fails the assertion.
push_from_graph(c) ==
    LET nodes == UNION { VisitNodes(c.branches[i]) :
                           i \in DOMAIN c.branches }
        c1 == push(c, "rev_stack", SetToSeq(nodes \cap Revisions))
        c2 == push(c1, "rel_stack", SetToSeq(nodes \cap Releases))
        c3 == push(c2, "dir_stack", SetToSeq(nodes \cap Directories))
        c4 == push(c3, "cnt_stack", SetToSeq(nodes \cap Contents))
    IN  IF nodes \cap OtherSnapshots # {}
        THEN Fail(c, "AssertionError")
        ELSE [ c4 EXCEPT !.refs = snapshot_refs(c),
                         !.steps = Append(@, "write_refs"),
                         !.pc = "load_objects" ]

\* push_subgraph of the root object.
PushSubgraph ==
    /\ cooker.pc = "push_subgraph"
    /\ cooker' =
          IF cooker.obj_id \in Revisions
          THEN [ push_revision_subgraph(cooker, cooker.obj_id)
                   EXCEPT !.pc = "load_objects" ]
          ELSE IF cooker.obj_id \in Directories
          THEN [ push(cooker, "dir_stack", << cooker.obj_id >>)
                   EXCEPT !.pc = "load_objects" ]
          ELSE IF cooker.has_graph /\ cooker.obj_id \in cooker.graph
          THEN push_from_graph(cooker)
          ELSE [ cooker EXCEPT !.pc = "branches", !.todo = cooker.branches ]
    /\ UNCHANGED backend_vars

\* One branch of the loop of push_snapshot_subgraph without the graph.  A
\* branch to a snapshot reads swhid, which is bound only by the loop over
\* the nodes of the graph.
push_branch(c, target) ==
    IF target \in {Alias, Dangling} THEN c
    ELSE IF target \in Revisions THEN push_revision_subgraph(c, target)
    ELSE IF target \in Releases THEN push_releases_subgraphs(c, target)
    ELSE IF target \in Directories THEN push(c, "dir_stack", << target >>)
    ELSE IF target \in Contents THEN push(c, "cnt_stack", << target >>)
    ELSE Fail(c, "UnboundLocalError")

\* push_snapshot_subgraph without the graph: the next branch of the loop
\* over snapshot.branches, and write_refs(snapshot) after the last one.
PushBranch_RefsLater ==
    /\ cooker.pc = "branches"
    /\ LET c == push_branch([ cooker EXCEPT !.todo = Tail(@) ],
                            Head(cooker.todo))
       IN  cooker' =
              IF c.exc # "none" \/ c.todo # << >> THEN c
              ELSE [ c EXCEPT !.pc = "load_objects" ]
    /\ UNCHANGED backend_vars

PushBranch ==
    /\ cooker.pc = "branches"
    /\ LET c == push_branch([ cooker EXCEPT !.todo = Tail(@) ],
                            Head(cooker.todo))
       IN  cooker' =
              IF c.exc # "none" \/ c.todo # << >> THEN c
              ELSE [ c EXCEPT !.refs = snapshot_refs(c),
                              !.steps = Append(@, "write_refs"),
                              !.pc = "load_objects" ]
    /\ UNCHANGED backend_vars

\* load_revisions: revision_get, write_revision_node of the revisions
\* found, and their directories pushed in one list.
load_revisions_NoDirectories(c, obj_ids) ==
    write_object(fetch(c, obj_ids), filter_None(c, obj_ids))

load_revisions(c, obj_ids) ==
    LET revisions == filter_None(c, obj_ids)
    IN  push(write_object(fetch(c, obj_ids), revisions), "dir_stack",
             [ i \in DOMAIN revisions |-> directory[revisions[i]] ])

\* load_directory: the entries; the directory is written and its files and
\* directories are pushed, unless the storage has no record of it.
entry_loaders_RevAsFile ==
    [ file |-> "cnt_stack", dir |-> "dir_stack", rev |-> "cnt_stack" ]

entry_loaders ==
    [ file |-> "cnt_stack", dir |-> "dir_stack", rev |-> "None" ]

\* The loop over the entries of load_directory: the target of an entry is
\* pushed on the stack of its type, if the type has one.
RECURSIVE push_entries(_, _)
push_entries(c, es) ==
    IF es = << >> THEN c
    ELSE LET stack == entry_loaders[Head(es).type]
         IN  push_entries(IF stack = "None" THEN c
                          ELSE push(c, stack, << Head(es).target >>),
                          Tail(es))

load_directory(c, obj_id) ==
    IF obj_id \in c.defect.missing THEN fetch(c, << obj_id >>)
    ELSE push_entries(write_object(fetch(c, << obj_id >>), << obj_id >>),
                      SetToSeq(entries(obj_id)))

RECURSIVE load_directories(_, _)
load_directories(c, obj_ids) ==
    IF obj_ids = << >> THEN c
    ELSE load_directories(load_directory(c, Head(obj_ids)), Tail(obj_ids))

\* What content_get and the object storage give for a content.
content_status(c, obj_id) ==
    IF obj_id = "cnt2" THEN c.defect.content ELSE "visible"

\* load_contents: a placeholder is written and the fsck errors are
\* expected for a content without record or hidden; a visible content is
\* written if the object storage has its data.
load_contents(c, obj_ids) ==
    LET replaced == SelectSeq(obj_ids, LAMBDA id :
                        content_status(c, id) \in {"norecord", "hidden"})
        visible == SelectSeq(obj_ids, LAMBDA id :
                        content_status(c, id) = "visible")
        w == write_object(write_object(fetch(c, obj_ids), replaced), visible)
    IN  [ w EXCEPT !.placeholders = @ \cup Range(replaced),
                   !.expected_fsck_errors = @ \cup Range(replaced) ]

\* The stacks are empty.
StacksEmpty(c) ==
    c.rel_stack \o c.rev_stack \o c.dir_stack \o c.cnt_stack = << >>

\* _pop: the last n ids of the stack are taken off it; they are kept as
\* the batch of the call that follows.
pop_WholeStack(c, stack, n) ==
    [ c EXCEPT ![stack] = << >>, !.batch = c[stack] ]

pop(c, stack, n) ==
    LET len == Len(c[stack])
        rest == IF len > n THEN len - n ELSE 0
    IN  [ c EXCEPT ![stack] = SubSeq(@, 1, rest),
                   !.batch = SubSeq(c[stack], rest + 1, len) ]

\* load_objects: the test of the while loop and the releases of one turn.
LoadObjects ==
    /\ cooker.pc = "load_objects"
    /\ ~ StacksEmpty(cooker)
    /\ LET c == pop(cooker, "rel_stack", RELEASE_BATCH_SIZE)
       IN  cooker' = [ load_releases(c, c.batch)
                         EXCEPT !.pc = "load_revisions" ]
    /\ UNCHANGED backend_vars

\* load_objects: the revisions of the turn.
LoadRevisions ==
    /\ cooker.pc = "load_revisions"
    /\ LET c == pop(cooker, "rev_stack", REVISION_BATCH_SIZE)
       IN  cooker' = [ load_revisions(c, c.batch)
                         EXCEPT !.pc = "load_directories" ]
    /\ UNCHANGED backend_vars

\* load_objects: the directories of the turn.
LoadDirectories ==
    /\ cooker.pc = "load_directories"
    /\ LET c == pop(cooker, "dir_stack", DIRECTORY_BATCH_SIZE)
       IN  cooker' = [ load_directories(c, c.batch)
                         EXCEPT !.pc = "load_contents" ]
    /\ UNCHANGED backend_vars

\* load_objects: the contents of the turn, and back to the test.
LoadContents ==
    /\ cooker.pc = "load_contents"
    /\ LET c == pop(cooker, "cnt_stack", CONTENT_BATCH_SIZE)
       IN  cooker' = [ load_contents(c, c.batch)
                         EXCEPT !.pc = "load_objects" ]
    /\ UNCHANGED backend_vars

\* write_refs() after load_objects: a synthetic revision and
\* refs/heads/master for a directory, refs/heads/master for a revision,
\* nothing for a snapshot, whose refs are written already.
WriteRefs_RefToRoot ==
    /\ cooker.pc = "load_objects"
    /\ StacksEmpty(cooker)
    /\ cooker' =
          IF cooker.obj_id \in Snapshots
          THEN [ cooker EXCEPT !.pc = "git_fsck" ]
          ELSE [ cooker EXCEPT
                   !.refs = { [ name |-> "refs/heads/master",
                                symbolic |-> FALSE,
                                target |-> cooker.obj_id ] },
                   !.steps = Append(@, "write_refs"),
                   !.pc = "git_fsck" ]
    /\ UNCHANGED backend_vars

WriteRefs ==
    /\ cooker.pc = "load_objects"
    /\ StacksEmpty(cooker)
    /\ LET master(target) == { [ name |-> "refs/heads/master",
                                 symbolic |-> FALSE, target |-> target ] }
       IN  cooker' =
              IF cooker.obj_id \in Directories
              THEN [ write_object(cooker, << SyntheticRevision >>) EXCEPT
                       !.refs = master(SyntheticRevision),
                       !.steps = Append(@, "write_refs"),
                       !.pc = "git_fsck" ]
              ELSE IF cooker.obj_id \in Revisions
              THEN [ cooker EXCEPT !.refs = master(cooker.obj_id),
                                   !.steps = Append(@, "write_refs"),
                                   !.pc = "git_fsck" ]
              ELSE [ cooker EXCEPT !.pc = "git_fsck" ]
    /\ UNCHANGED backend_vars

\* The objects that an object of the git directory refers to.
Links(c, o) ==
    IF o = SyntheticRevision THEN {c.obj_id}
    ELSE IF o \in Revisions THEN {directory[o]} \cup parents[o]
    ELSE IF o \in Directories THEN files[o] \cup subdirs[o]
    ELSE IF o \in Releases THEN {release_target[o]}
    ELSE {}

\* The objects git fsck complains about: those written with a placeholder
\* and those that a written object refers to and that are not written.
fsck_errors(c) ==
    c.placeholders \cup
    { o \in UNION { Links(c, w) : w \in { x \in DOMAIN c.written :
                                           c.written[x] > 0 } } :
        c.written[o] = 0 }

\* git_fsck: the errors that are not expected are logged.
GitFsck ==
    /\ cooker.pc = "git_fsck"
    /\ cooker' = [ cooker EXCEPT
                     !.unexpected = fsck_errors(cooker)
                                       \ cooker.expected_fsck_errors,
                     !.steps = Append(@, "git_fsck"),
                     !.pc = "repack" ]
    /\ UNCHANGED backend_vars

\* What becomes of the two git commands of repack.
RepackOutcomes == {"packed", "repack failed", "prune-packed failed"}

\* repack: git repack, whose failure is logged, then git prune-packed with
\* check=True outside the try.
Repack ==
    /\ cooker.pc = "repack"
    /\ \E out \in RepackOutcomes :
          cooker' = IF out = "prune-packed failed"
                    THEN Fail([ cooker EXCEPT
                                  !.steps = Append(@, "repack") ],
                              "CalledProcessError")
                    ELSE [ cooker EXCEPT !.repacked = (out = "packed"),
                                         !.steps = Append(@, "repack"),
                                         !.pc = "write_archive" ]
    /\ UNCHANGED backend_vars

\* write_archive: the tarball of the git directory.
WriteArchive ==
    /\ cooker.pc = "write_archive"
    /\ cooker' = [ cooker EXCEPT !.archive = TRUE,
                                 !.steps = Append(@, "write_archive"),
                                 !.pc = "done" ]
    /\ UNCHANGED backend_vars

-----------------------------------------------------------------------------
(* The specifications. *)

\* The later steps of a call.
Step(p) ==
    \/ Cook_DeleteFailed(p)
    \/ Cook_CreateTask(p)
    \/ CreateTask_SendTask(p)
    \/ CreateTask_SendTaskFails(p)
    \/ CreateTask_UpdateTaskId(p)
    \/ Cook_Email(p)
    \/ Cook_Progress(p)
    \/ Fetch_UpdateAccessTs(p)

\* Spec: one caller and the bundle of one key, through all of its life.
Init == InitWith(MaxCalls)

Next ==
    \/ \E k \in {K1} \cup MissingKeys \cup UnknownKeys, sticky \in BOOLEAN,
          email \in Emails \cup {NoEmail} : Cook(1, k, sticky, email)
    \/ \E k \in {K1} \cup MissingKeys, sticky \in BOOLEAN :
          CreateTask(1, k, sticky)
    \/ \E status \in Statuses : SetStatus(1, K1, status)
    \/ \E msg \in Messages \cup {NoMsg} : SetProgress(1, K1, msg)
    \/ \E bundle \in Blobs : PutBundle(1, K1, bundle)
    \/ UpdateAccessTs(1, K1)
    \/ \E raise_notfound \in BOOLEAN : Fetch(1, K1, raise_notfound)
    \/ \E n \in 0 .. 1, by \in Orderings : CacheExpireOldest(1, n, by)
    \/ \E by \in Orderings : \E date \in Cutoffs(by) :
          CacheExpireUntil(1, date, by)
    \/ Step(1)

Spec == Init /\ [][Next]_vars

\* SpecExpire: one caller, the bundles of two keys and their expiration.
InitExpire == InitWith(MaxExpireCalls)

NextExpire ==
    \/ \E k \in Keys, sticky \in BOOLEAN : CreateTask(1, k, sticky)
    \/ CreateTask_SendTask(1)
    \/ CreateTask_UpdateTaskId(1)
    \/ \E k \in Keys : PutBundle(1, k, "bundle1")
    \/ \E k \in Keys : SetStatus(1, k, "done")
    \/ \E k \in Keys : UpdateAccessTs(1, k)
    \/ \E n \in 0 .. Cardinality(Keys), by \in Orderings :
          CacheExpireOldest(1, n, by)
    \/ \E by \in Orderings : \E date \in Cutoffs(by) :
          CacheExpireUntil(1, date, by)

SpecExpire == InitExpire /\ [][NextExpire]_vars

\* SpecConc: two callers whose calls overlap, on the bundles of two keys.
Batches == { b \in SUBSET Keys : b # {} /\ Cardinality(b) <= MaxBatchLen }

InitConc == InitWith(MaxConcCalls)

NextConc ==
    \E p \in Procs :
       \/ Cook(p, K1, FALSE, NoEmail)
       \/ CreateTask(p, K1, FALSE)
       \/ \E batch \in Batches : BatchCook(p, batch)
       \/ SetStatus(p, K1, "failed")
       \/ CacheExpireOldest(p, 1, "created")
       \/ Cook_DeleteFailed(p)
       \/ Cook_CreateTask(p)
       \/ CreateTask_SendTask(p)
       \/ CreateTask_UpdateTaskId(p)
       \/ Cook_Progress(p)
       \/ BatchCook_SendTasks(p)
       \/ BatchCook_UpdateTaskIds(p)

SpecConc == InitConc /\ [][NextConc]_vars

\* SpecBatch: one caller, batches over all the keys, and the rows that
\* create_task and set_status give them.
BatchInputs ==
    { b \in SUBSET AllKeys : b # {} /\ Cardinality(b) <= MaxBatchLen }

InitBatch == InitWith(MaxBatchCalls)

NextBatch ==
    \/ \E k \in UnknownKeys, sticky \in BOOLEAN,
          email \in Emails \cup {NoEmail} : Cook(1, k, sticky, email)
    \/ \E k \in MissingKeys : Cook(1, k, FALSE, NoEmail)
    \/ Cook_DeleteFailed(1)
    \/ Cook_CreateTask(1)
    \/ Cook_Progress(1)
    \/ \E k \in Keys \cup MissingKeys : CreateTask(1, k, FALSE)
    \/ CreateTask_SendTask(1)
    \/ CreateTask_UpdateTaskId(1)
    \/ \E k \in Keys \cup MissingKeys, status \in Statuses :
          SetStatus(1, k, status)
    \/ \E batch \in BatchInputs : BatchCook(1, batch)
    \/ BatchCook_SendTasks(1)
    \/ BatchCook_SendTasksFails(1)
    \/ BatchCook_UpdateTaskIds(1)
    \/ \E batch_id \in 1 .. seq.batch : BatchProgress(1, batch_id)

SpecBatch == InitBatch /\ [][NextBatch]_vars

\* SpecNotif: one caller, one key and two e-mail addresses: cook with an
\* e-mail, the cooker's set_status, and send_notif.
NotifEmails == {"a@example.com", "b@example.com"}

InitNotif == InitWith(MaxNotifCalls)

NextNotif ==
    \/ \E email \in NotifEmails \cup {NoEmail} : Cook(1, K1, FALSE, email)
    \/ Cook_DeleteFailed(1)
    \/ Cook_CreateTask(1)
    \/ CreateTask_SendTask(1)
    \/ CreateTask_UpdateTaskId(1)
    \/ Cook_Email(1)
    \/ Cook_Progress(1)
    \/ \E status \in Statuses : SetStatus(1, K1, status)
    \/ SendNotif(1, K1)
    \/ SendNotif_Send(1)

SpecNotif == InitNotif /\ [][NextNotif]_vars

\* SpecCooker: one run of prepare_bundle, for a revision, a directory or
\* the snapshot with its branches, without a graph or with one of Graphs,
\* on an archive with one of Defects.  The walker is not run on a history
\* with a revision that the storage has no record of.
CookerRoots == {"rev1", "rev3"} \cup Directories \cup Snapshots

InitCooker ==
    /\ vault_bundle = {}
    /\ vault_notif_email = {}
    /\ vault_batch = {}
    /\ vault_batch_bundle = {}
    /\ cache = [ k \in AllKeys |-> NoBlob ]
    /\ tasks = [ k \in AllKeys |-> 0 ]
    /\ outbox = << >>
    /\ seq = [ bundle |-> 1, notif |-> 1, batch |-> 1 ]
    /\ clock = 1
    /\ proc = [ p \in Procs |-> Idle ]
    /\ ncalls = 0
    /\ \E obj_id \in CookerRoots, has_graph \in BOOLEAN, graph \in Graphs,
          defect \in Defects :
          /\ has_graph \/ graph = {}
          /\ obj_id \notin defect.missing
          /\ defect.missing \cap Revisions # {}
                => has_graph /\ Revisions \subseteq graph
          /\ \E branches \in [ 1 .. MaxBranches -> BranchTargets ] :
                /\ obj_id \in Snapshots
                      \/ \A i \in DOMAIN branches : branches[i] = Dangling
                /\ cooker = NewCooker(obj_id, branches, has_graph, graph,
                                      defect)

NextCooker ==
    \/ PushSubgraph
    \/ PushBranch
    \/ LoadObjects
    \/ LoadRevisions
    \/ LoadDirectories
    \/ LoadContents
    \/ WriteRefs
    \/ GitFsck
    \/ Repack
    \/ WriteArchive

SpecCooker == InitCooker /\ [][NextCooker]_vars

-----------------------------------------------------------------------------
(* Properties of cook, set_status and fetch, for one caller (Spec). *)

\* Caller p takes this step.
StepOf(p) == proc'[p] # proc[p] \/ ncalls' # ncalls

\* C1: a cook call that finds a row of status new, pending or done changes
\* no row and creates none, sends no task, and returns the row it found;
\* it ends otherwise only when its e-mail for a done bundle cannot reach
\* the SMTP server.
C1_CookIdempotent ==
    [][ \A p \in Procs :
          ( /\ StepOf(p)
            /\ proc'[p].op = "cook"
            /\ proc'[p].info0 # NoRow
            /\ proc'[p].info0.task_status \in {"new", "pending", "done"} )
          => /\ vault_bundle' = vault_bundle
             /\ tasks' = tasks
             /\ proc'[p].pc = "idle" =>
                   IF proc'[p].exc = "none"
                   THEN /\ proc'[p].ret = proc'[p].info0
                        /\ RowsOf(proc'[p].key) = { proc'[p].ret }
                   ELSE /\ proc'[p].exc = "ConnectionRefusedError"
                        /\ proc'[p].email # NoEmail
                        /\ proc'[p].info0.task_status = "done" ]_vars

\* C1 witness: two cook calls were made for the key, the second found the
\* pending row of the first and returned it; one task was sent.
C1_Witness ==
    /\ proc[1].pc = "idle" /\ proc[1].op = "cook" /\ proc[1].exc = "none"
    /\ proc[1].info0 # NoRow
    /\ proc[1].info0.task_status = "pending"
    /\ proc[1].ret = proc[1].info0
    /\ tasks[proc[1].key] = 1

\* C5: a cook call that finds a failed row and returns has deleted that row
\* and created a fresh one (status new, ts_done and progress_msg NULL),
\* for which exactly one task was sent.
C5_RetryFailed ==
    \A p \in Procs :
       ( /\ proc[p].op = "cook"
         /\ proc[p].info0 # NoRow
         /\ proc[p].info0.task_status = "failed"
         /\ proc[p].pc \notin {"cook_delete"} )
       => /\ \A r \in vault_bundle : r.id # proc[p].info0.id
          /\ (proc[p].pc = "idle" /\ proc[p].exc = "none") =>
                /\ RowsOf(proc[p].key) = { proc[p].ret }
                /\ proc[p].ret.id # proc[p].info0.id
                /\ proc[p].ret.task_status = "new"
                /\ proc[p].ret.ts_done = NULL
                /\ proc[p].ret.progress_msg = NoMsg
                /\ proc[p].ret.ts_created > proc[p].info0.ts_created
                /\ tasks[proc[p].key] = proc[p].tasks0 + 1
                /\ proc[p].ret.task_id = tasks[proc[p].key]

\* C5 witness: cook returned after replacing a failed row that had a
\* progress message and a task.
C5_Witness ==
    /\ proc[1].pc = "idle" /\ proc[1].op = "cook" /\ proc[1].exc = "none"
    /\ proc[1].info0 # NoRow
    /\ proc[1].info0.task_status = "failed"
    /\ proc[1].info0.progress_msg # NoMsg
    /\ proc[1].info0.task_id # NULL
    /\ tasks[proc[1].key] = 2

\* The moves of task_status the lifecycle allows: forward along
\* new -> pending -> done or failed.
LifecycleMove(a, b) ==
    \/ a = b
    \/ a = "new" /\ b \in {"pending", "done", "failed"}
    \/ a = "pending" /\ b \in {"done", "failed"}

\* C6: the status of a row only moves forward along new -> pending ->
\* done or failed; a pending row never returns to new and a done row
\* never changes status.
C6_Lifecycle ==
    [][ \A r \in vault_bundle : \A r2 \in vault_bundle' :
          r2.id = r.id => LifecycleMove(r.task_status, r2.task_status) ]_vars

\* The cache holds the bundle of the key and the ledger says done.
DoneAndCached(k) ==
    /\ cache[k] # NoBlob
    /\ \E r \in vault_bundle : KeyOf(r) = k /\ r.task_status = "done"

\* C7: fetch returns bytes only for a done row whose bundle is cached; in
\* every other state it raises NotFoundExc (returns None when
\* raise_notfound is false) and changes neither the tables nor the cache.
C7_FetchOnlyAvailable ==
    [][ \A p \in Procs :
          (StepOf(p) /\ proc'[p].op = "fetch" /\ proc'[p].pc = "idle")
          => IF DoneAndCached(proc'[p].key)
             THEN /\ proc'[p].exc = "none"
                  /\ proc'[p].data = cache[proc'[p].key]
             ELSE /\ proc'[p].data = NoBlob
                  /\ proc'[p].exc = IF proc'[p].raise_notfound
                                    THEN "NotFoundExc" ELSE "none"
                  /\ UNCHANGED << vault_bundle, vault_notif_email,
                                  vault_batch, vault_batch_bundle, cache >>
      ]_vars

\* C7 witness: fetch raised NotFoundExc for a done row whose bundle is not
\* in the cache.
C7_Witness ==
    /\ proc[1].pc = "idle" /\ proc[1].op = "fetch"
    /\ proc[1].exc = "NotFoundExc"
    /\ proc[1].info # NoRow /\ proc[1].info.task_status = "done"
    /\ proc[1].info \in vault_bundle
    /\ cache[proc[1].key] = NoBlob

\* The step moves ts_last_access of the row of k forward and changes
\* nothing else of it.
AccessTsForward(k) ==
    \A r \in RowsOf(k) :
       \E r2 \in vault_bundle' :
          /\ r2.ts_last_access > r.ts_last_access
          /\ r2 = [ r EXCEPT !.ts_last_access = r2.ts_last_access ]

\* C8: a fetch that returns bytes, and an update_access_ts of an existing
\* row, set ts_last_access to a value greater than the row had, and change
\* nothing else of the row; fetch returns the bytes the cache holds.
C8_AccessTs ==
    [][ \A p \in Procs :
          /\ ( /\ StepOf(p)
               /\ proc'[p].pc = "idle"
               /\ proc'[p].op = "fetch"
               /\ proc'[p].data # NoBlob )
             => /\ RowsOf(proc'[p].key) # {}
                /\ AccessTsForward(proc'[p].key)
                /\ proc'[p].data = cache[proc'[p].key]
                /\ cache' = cache
          /\ ( proc'[p].op = "none" /\ clock' # clock ) =>
                \A k \in Keys : UpdateAccessTs(p, k) => AccessTsForward(k)
      ]_vars

\* C8 witness: a fetch returned the bundle of a row whose ts_last_access an
\* earlier call had already moved past ts_created, and moved it again.
C8_Witness ==
    /\ proc[1].pc = "idle" /\ proc[1].op = "fetch"
    /\ proc[1].data \in Blobs
    /\ proc[1].info.ts_last_access > proc[1].info.ts_created
    /\ \E r \in RowsOf(proc[1].key) :
          r.ts_last_access > proc[1].info.ts_last_access

-----------------------------------------------------------------------------
(* Properties of the expiration, for one caller (SpecExpire). *)

\* C9: no call of cache_expire_oldest or cache_expire_until deletes a
\* sticky row or removes its bundle from the cache.
C9_StickyNeverExpired ==
    [][ ( /\ StepOf(1)
          /\ proc'[1].op \in {"cache_expire_oldest", "cache_expire_until"} )
        => \A r \in vault_bundle :
              r.sticky => /\ r \in vault_bundle'
                          /\ cache'[KeyOf(r)] = cache[KeyOf(r)] ]_vars

\* C9 witness: an expiration deleted a row and kept a sticky row that is
\* older than the deleted one by every timestamp, with its bundle.
C9_Witness ==
    /\ proc[1].op \in {"cache_expire_oldest", "cache_expire_until"}
    /\ proc[1].expired # {}
    /\ \E r \in vault_bundle :
          /\ r.sticky
          /\ r.task_status = "done"
          /\ cache[KeyOf(r)] # NoBlob
          /\ \A e \in proc[1].expired :
                /\ r.ts_created < e.ts_created
                /\ r.ts_last_access < e.ts_last_access
                /\ e.ts_done # NULL /\ r.ts_done < e.ts_done

\* Row b comes strictly before row a in the order of ts_<by> (NULL last).
StrictlyOlder(b, a, by) ==
    /\ ts(b, by) # NULL
    /\ ts(a, by) = NULL \/ ts(b, by) < ts(a, by)

\* C10: cache_expire_oldest(n, by) deletes min(n, number of non-sticky
\* rows) rows, all of them non-sticky and none younger by ts_<by> than a
\* non-sticky row it keeps, and changes no other row; it removes the
\* bundles of the deleted rows, which are then not available, and every
\* other bundle that was available stays available.
C10_ExpireOldest ==
    [][ proc'[1].op = "cache_expire_oldest" =>
        \A n \in 0 .. Cardinality(Keys), by \in Orderings :
          CacheExpireOldest(1, n, by) =>
             LET D == vault_bundle \ vault_bundle'
                 NS == { r \in vault_bundle : ~ r.sticky }
                 Gone == { KeyOf(r) : r \in D }
             IN  /\ vault_bundle' \subseteq vault_bundle
                 /\ D \subseteq NS
                 /\ Cardinality(D) = IF n < Cardinality(NS)
                                     THEN n ELSE Cardinality(NS)
                 /\ \A a \in D : \A b \in NS \ D : ~ StrictlyOlder(b, a, by)
                 /\ \A k \in AllKeys :
                       IF k \in Gone
                       THEN /\ cache'[k] = NoBlob
                            /\ ~ DoneAndCached(k)'
                       ELSE /\ cache'[k] = cache[k]
                            /\ DoneAndCached(k) => DoneAndCached(k)' ]_vars

\* C10 witness: of two available bundles with non-sticky rows,
\* cache_expire_oldest deleted the row and the bundle of the older one, and
\* the younger one is still available.
C10_Witness ==
    /\ proc[1].op = "cache_expire_oldest"
    /\ Cardinality(proc[1].expired) = 1
    /\ \E e \in proc[1].expired :
          /\ e.task_status = "done"
          /\ KeyOf(e) \in proc[1].uncached
          /\ RowsOf(KeyOf(e)) = {}
          /\ \E r \in vault_bundle :
                /\ ~ r.sticky
                /\ DoneAndCached(KeyOf(r))
                /\ r.ts_last_access > e.ts_last_access

-----------------------------------------------------------------------------
(* Properties of overlapping calls (SpecConc). *)

\* C2: in every state the ledger holds at most one row for a key, and a
\* create_task for a key that has a row adds no row.
C2_UniqueKey ==
    /\ [](\A k \in AllKeys : Cardinality(RowsOf(k)) <= 1)
    /\ [][ \A p \in Procs :
             /\ \A k \in Keys, sticky \in BOOLEAN :
                   CreateTask(p, k, sticky) /\ RowsOf(k) # {}
                      => vault_bundle' = vault_bundle
             /\ Cook_CreateTask(p) /\ RowsOf(proc[p].key) # {}
                   => vault_bundle' = vault_bundle ]_vars

\* C2 witness: two overlapping cook calls both read the failed row of the
\* key and retried; the insert of one was rejected, and the key has one
\* row, the fresh one.
C2_Witness ==
    /\ \A p \in Procs :
          /\ proc[p].op = "cook"
          /\ proc[p].info0 # NoRow
          /\ proc[p].info0.task_status = "failed"
    /\ \E p \in Procs : proc[p].exc = "UniqueViolation"
    /\ Cardinality(RowsOf(K1)) = 1
    /\ progress(K1).task_status = "new"

\* C3: while the first row of a key is there and not failed, at most one
\* task has been sent to the scheduler for the key.
C3_AtMostOneTask ==
    Cardinality(vault_bundle) = seq.bundle - 1 =>
       \A k \in Keys :
          RowsOf(k) # {} /\ progress(k).task_status # "failed"
             => tasks[k] <= 1

\* C4: a cook call that read no row and finds the key taken when it
\* inserts ends without an error and returns the row of the key.
C4_LoserIsNoOp ==
    [][ \A p \in Procs :
          Cook_CreateTask(p) /\ RowsOf(proc[p].key) # {}
             => /\ proc'[p].exc = "none"
                /\ proc'[p].pc = "idle" => proc'[p].ret = progress(proc[p].key)
      ]_vars

-----------------------------------------------------------------------------
(* Properties of cache_expire_until (SpecExpire). *)

\* C11: cache_expire_until(date, by) deletes exactly the non-sticky rows
\* whose ts_<by> is set and at or before the date, removes their bundles
\* from the cache and leaves every other row and bundle as it was; a row
\* whose ts_<by> is after the date stays.
C11_ExpireUntil ==
    [][ proc'[1].op = "cache_expire_until" =>
        \A by \in Orderings : \A date \in Cutoffs(by) :
          CacheExpireUntil(1, date, by) =>
             LET D == vault_bundle \ vault_bundle'
                 Gone == { KeyOf(r) : r \in D }
             IN  /\ vault_bundle' \subseteq vault_bundle
                 /\ \A r \in vault_bundle :
                       r \in D <=> /\ ~ r.sticky
                                   /\ ts(r, by) # NULL
                                   /\ ts(r, by) <= date
                 /\ \A k \in AllKeys :
                       cache'[k] = IF k \in Gone THEN NoBlob ELSE cache[k]
      ]_vars

\* C11 witness: cache_expire_until by last access deleted a done row and
\* its bundle, and kept a non-sticky row that was created and done before
\* the deleted one but read after it.
C11_Witness ==
    /\ proc[1].op = "cache_expire_until"
    /\ \E e \in proc[1].expired :
          /\ KeyOf(e) \in proc[1].uncached
          /\ cache[KeyOf(e)] = NoBlob
          /\ \E r \in vault_bundle :
                /\ ~ r.sticky
                /\ r.ts_created < e.ts_created
                /\ r.ts_done # NULL /\ r.ts_done < e.ts_done
                /\ r.ts_last_access > e.ts_last_access

-----------------------------------------------------------------------------
(* Properties of set_status and of the errors of cook (Spec). *)

\* C12: in every state, ts_done of a row is set if and only if the status
\* of the row is done.
C12_DoneAtIffDone ==
    \A r \in vault_bundle : r.ts_done # NULL <=> r.task_status = "done"

-----------------------------------------------------------------------------
(* Properties of the unknown bundle type and of batches (SpecBatch). *)

\* A cook for a key of an unregistered type, or a batch_cook for a batch
\* with such a key, ends at once with the exception exc and changes no
\* table, sends no task and no message.
UnknownTypeFails(exc) ==
    LET failed == /\ proc'[1].pc = "idle"
                  /\ proc'[1].exc = exc
                  /\ UNCHANGED << vault_bundle, vault_notif_email,
                                  vault_batch, vault_batch_bundle, cache,
                                  tasks, outbox, seq >>
    IN  /\ \A k \in UnknownKeys, sticky \in BOOLEAN,
              email \in Emails \cup {NoEmail} :
              Cook(1, k, sticky, email) => failed
        /\ \A batch \in BatchInputs :
              BatchCook(1, batch) /\ batch \cap UnknownKeys # {} => failed

C14_MissingObjectNoChange ==
    /\ [][ \A k \in MissingKeys :
             CreateTask(1, k, FALSE) =>
                /\ proc'[1].exc = "NotFoundExc"
                /\ UNCHANGED << vault_bundle, vault_notif_email, vault_batch,
                                vault_batch_bundle, tasks >> ]_vars
    /\ []( ( /\ proc[1].op = "cook"
             /\ proc[1].pc = "idle"
             /\ proc[1].key \in MissingKeys
             /\ proc[1].exc = "NotFoundExc" )
           => /\ RowsOf(proc[1].key) =
                    IF proc[1].info0 = NoRow THEN {} ELSE { proc[1].info0 }
              /\ tasks[proc[1].key] = proc[1].tasks0 )

-----------------------------------------------------------------------------
(* Notifications *)

\* The row cook found was done.
FoundDone(c) == c.info0 # NoRow /\ c.info0.task_status = "done"

\* The step gives exactly one message to _smtp_send, for cook's e-mail.
OneMessage(c) ==
    /\ Len(outbox') = Len(outbox) + 1
    /\ SubSeq(outbox', 1, Len(outbox)) = outbox
    /\ LET m == outbox'[Len(outbox')]
       IN  /\ m.email = c.email
           /\ m.key = c.key
           /\ m.status = "done"
           /\ m.n_id = NULL

\* The step records exactly one subscription, of cook's e-mail to the row
\* of the key.
OneSubscription(c) ==
    /\ vault_notif_email \subseteq vault_notif_email'
    /\ \E n \in vault_notif_email' \ vault_notif_email :
          /\ vault_notif_email' = vault_notif_email \cup {n}
          /\ n.email = c.email
          /\ \E r \in RowsOf(c.key) : n.bundle_id = r.id

\* C15: a cook call with an e-mail that finds a done row gives one message
\* for that e-mail to the mailer, in its e-mail step and in no other, and
\* records no subscription; one that finds no row or a row that is not done
\* records one subscription of the e-mail to the row it returns and gives
\* no message to the mailer; a cook call without an e-mail gives no message
\* and records no subscription.
C15_CookEmail ==
    [][ ( StepOf(1) /\ proc'[1].op = "cook" ) =>
          LET c == proc'[1]
              before == proc[1].pc
          IN  IF c.email = NoEmail
              THEN /\ outbox' = outbox
                   /\ vault_notif_email' \subseteq vault_notif_email
                   /\ before # "cook_email"
              ELSE IF FoundDone(c)
              THEN /\ vault_notif_email' = vault_notif_email
                   /\ before = "idle" => c.pc = "cook_email"
                   /\ before = "cook_email" =>
                         /\ OneMessage(c)
                         /\ \/ c.pc = "cook_progress"
                            \/ c.pc = "idle" /\ c.exc = "ConnectionRefusedError"
                   /\ before # "cook_email" => outbox' = outbox
                   /\ before = "cook_progress" => c.pc = "idle" /\ c.exc = "none"
              ELSE /\ outbox' = outbox
                   /\ before = "cook_email" =>
                         OneSubscription(c) /\ c.pc = "cook_progress"
                   /\ before # "cook_email" =>
                         vault_notif_email' \subseteq vault_notif_email
                   /\ c.pc = "idle" =>
                         /\ before = "cook_progress"
                         /\ c.exc = "none"
                         /\ \E n \in vault_notif_email :
                               n.email = c.email /\ n.bundle_id = c.ret.id ]_vars

\* C15 witness: a cook call with an e-mail found the bundle done and gave
\* one message to the mailer, while the subscription that an earlier cook
\* call recorded for another e-mail is still there.
C15_Witness ==
    /\ proc[1].op = "cook"
    /\ proc[1].pc = "idle"
    /\ proc[1].exc = "none"
    /\ proc[1].email # NoEmail
    /\ FoundDone(proc[1])
    /\ Len(outbox) = 1
    /\ outbox[1].email = proc[1].email
    /\ \E n \in vault_notif_email : n.email # proc[1].email


\* The messages in the outbox that answer one of the subscriptions ds and
\* went to the e-mail address.
MessagesTo(ds, email) ==
    { i \in DOMAIN outbox' :
        /\ outbox'[i].email = email
        /\ \E d \in ds : outbox'[i].n_id = d.id }

\* C16: a send_notif call for a key whose status is done or failed ends
\* normally, has then given the mailer exactly one message for each e-mail
\* subscribed and has deleted every subscription it read; a send_notif call
\* that reads no subscription gives the mailer nothing.
C16_NotifyOnce ==
    [][ ( /\ StepOf(1)
          /\ proc'[1].op = "send_notif"
          /\ proc'[1].pc = "idle"
          /\ \A d \in proc'[1].notifs0 : d.task_status \in {"done", "failed"} )
        => LET c == proc'[1]
           IN  /\ c.exc = "none"
               /\ \A d \in c.notifs0 :
                     /\ Cardinality(MessagesTo(c.notifs0, d.email)) = 1
                     /\ \A n \in vault_notif_email' : n.id # d.id
               /\ c.notifs0 = {} => outbox' = outbox ]_vars


\* The step gave the mailer a message that was not delivered.
DeliveryFailed ==
    /\ Len(outbox') = Len(outbox) + 1
    /\ outbox'[Len(outbox')].result # "sent"

\* C17: a message that is not delivered does not end the call that gave it
\* to the mailer with an exception: cook goes on to return the row, and
\* send_notif goes on to the subscriptions it has not tried yet.
C17_DeliveryFailureNotRaised ==
    [][ ( StepOf(1) /\ DeliveryFailed )
        => /\ proc'[1].exc = "none"
           /\ proc'[1].op = "cook" => proc'[1].pc = "cook_progress"
           /\ proc'[1].op = "send_notif" =>
                 IF proc'[1].notifs = {}
                 THEN proc'[1].pc = "idle"
                 ELSE proc'[1].pc = "notif_send" ]_vars

-----------------------------------------------------------------------------
(* Batches *)

\* The row that the key had when batch_cook started, if it was not failed.
KeptRows(c, k) ==
    { r \in c.rows0 : KeyOf(r) = k /\ r.task_status # "failed" }

\* The key had a row that was not failed and carried the id of a task.
HadTask(c, k) == \E r \in KeptRows(c, k) : r.task_id # NULL

C19_BatchProgressReturns ==
    ( proc[1].op = "batch_progress" /\ proc[1].pc = "idle" )
    => IF proc[1].rows0 = {}
       THEN proc[1].exc = "NotFoundExc"
       ELSE proc[1].exc = "none"

-----------------------------------------------------------------------------
(* Properties of the git_bare cooker (SpecCooker). *)

\* C20: during a run of prepare_bundle no object has been fetched from the
\* storage more than once, and none has been written to the git directory
\* more than once.
C20_AtMostOnce ==
    \A o \in Objects : cooker.fetched[o] <= 1 /\ cooker.written[o] <= 1


\* An archive with nothing wrong.
NoDefect == [ content |-> "visible", missing |-> {} ]

\* load_objects has returned.
Loaded == cooker.pc \in {"git_fsck", "repack", "write_archive", "done"}

\* What a revision, a directory or a release refers to.
RefersTo(o) ==
    IF o \in Revisions THEN {directory[o]} \cup parents[o]
    ELSE IF o \in Directories THEN files[o] \cup subdirs[o]
    ELSE IF o \in Releases THEN {release_target[o]} \cap Objects
    ELSE {}

\* The objects that can be reached from those of S.
RECURSIVE Reachable(_)
Reachable(S) ==
    LET T == S \cup UNION { RefersTo(o) : o \in S }
    IN  IF T = S THEN S ELSE Reachable(T)

\* C21: for a revision root on an archive with nothing missing, when
\* load_objects has returned the objects written include every revision of
\* the history of the root, the directory of each of them, and every
\* directory and content below these directories.
C21_Complete ==
    ( Loaded /\ cooker.obj_id \in Revisions /\ cooker.defect = NoDefect )
        => \A o \in Reachable({cooker.obj_id}) : cooker.written[o] >= 1

\* The bundle of rev3 is done from a graph that knows the revisions, and
\* holds the three revisions, both directories and both contents.
C21_Witness ==
    /\ cooker.pc = "done"
    /\ cooker.obj_id = "rev3"
    /\ cooker.has_graph /\ "rev3" \in cooker.graph
    /\ cooker.defect = NoDefect
    /\ Reachable({"rev3"}) = Revisions \cup Directories \cup Contents
    /\ \A o \in Revisions \cup Directories \cup Contents :
          cooker.written[o] >= 1


\* C22: when the graph knows the root, the walk over the revision log of
\* the storage is never started; when there is a graph that does not know
\* the revision root, push_subgraph starts the walk once for it and
\* nothing but the last step of repack can make the call fail.
C22_GraphShortcut ==
    /\ ( cooker.has_graph /\ cooker.obj_id \in cooker.graph )
          => cooker.walks = 0
    /\ ( /\ cooker.obj_id \in Revisions
         /\ cooker.has_graph /\ cooker.obj_id \notin cooker.graph
         /\ cooker.pc # "push_subgraph" )
          => /\ cooker.walks = 1
             /\ cooker.pc = "failed" => cooker.exc = "CalledProcessError"

\* The bundle of rev3 is done with a graph that knows rev1 only, after one
\* walk; each revision of its history is written.
C22_Witness ==
    /\ cooker.pc = "done" /\ cooker.archive
    /\ cooker.obj_id = "rev3"
    /\ cooker.has_graph /\ cooker.graph = {"rev1"}
    /\ cooker.walks = 1
    /\ \A r \in Revisions : cooker.written[r] = 1


\* The objects written so far.
WrittenSet == { o \in Objects : cooker.written[o] >= 1 }

\* The objects the root or the branches of the snapshot name.
RootObjects ==
    IF cooker.obj_id \in Snapshots
    THEN Range(cooker.branches) \cap Objects
    ELSE {cooker.obj_id}

\* The objects that can be reached from those of S through objects that
\* the storage has a record of.
RECURSIVE ReachableInStorage(_)
ReachableInStorage(S) ==
    LET T == S \cup UNION { RefersTo(o) : o \in S \ cooker.defect.missing }
    IN  IF T = S THEN S ELSE ReachableInStorage(T)

\* What the storage can give of the objects below the root: what the cook
\* without a graph writes.
StorageClosure ==
    { o \in ReachableInStorage(RootObjects) :
        /\ o \notin cooker.defect.missing
        /\ o \in Contents => content_status(cooker, o) # "nodata" }

\* The refs that belong to the root.
RootRefs ==
    IF cooker.obj_id \in Snapshots THEN snapshot_refs(cooker)
    ELSE { [ name |-> "refs/heads/master", symbolic |-> FALSE,
             target |-> cooker.obj_id ] }

\* The storage has every revision, so that the root is cooked both with
\* and without the graph.
BothStrategies == cooker.defect.missing \cap Revisions = {}

\* C23 as stated: for a revision or snapshot root, with any graph or none,
\* the objects and the refs written when load_objects and write_refs have
\* returned are those of the cook without a graph.
C23_SameWithAnyGraph ==
    ( /\ Loaded
      /\ cooker.obj_id \in Revisions \cup Snapshots
      /\ BothStrategies )
        => WrittenSet = StorageClosure /\ cooker.refs = RootRefs

\* The equality of C23 where the storage has a record of every release.
C23_SameWithAnyGraphAllReleases ==
    ( /\ Loaded
      /\ cooker.obj_id \in Revisions \cup Snapshots
      /\ BothStrategies
      /\ cooker.defect.missing \cap Releases = {} )
        => WrittenSet = StorageClosure /\ cooker.refs = RootRefs


\* C24: when git_fsck has returned, every content that was popped from the
\* content stack and has no bytes (no record, hidden, or visible without
\* data) is written with a placeholder, has its fsck errors expected, and
\* is not among the unexpected errors.
C24_Placeholders ==
    cooker.pc \in {"repack", "write_archive", "done"}
        => \A o \in Contents \cap cooker.seen :
              content_status(cooker, o) # "visible"
                 => /\ cooker.written[o] >= 1
                    /\ o \in cooker.placeholders
                    /\ o \in cooker.expected_fsck_errors
                    /\ o \notin cooker.unexpected


\* The ref refs/heads/master to the target, and no other.
OnlyMaster(target) ==
    cooker.refs = { [ name |-> "refs/heads/master", symbolic |-> FALSE,
                      target |-> target ] }

\* C25: no more than one synthetic revision is ever written, and none
\* unless the root is a directory.  When write_refs has returned, for a
\* directory root the synthetic revision of that directory is written once
\* and refs/heads/master to it is the only ref; for a revision root
\* refs/heads/master to the root is the only ref.
C25_RootRef ==
    /\ cooker.written[SyntheticRevision] <= 1
    /\ cooker.obj_id \notin Directories
          => cooker.written[SyntheticRevision] = 0
    /\ ( Loaded /\ cooker.obj_id \in Directories )
          => /\ cooker.written[SyntheticRevision] = 1
             /\ Links(cooker, SyntheticRevision) = {cooker.obj_id}
             /\ OnlyMaster(SyntheticRevision)
    /\ ( Loaded /\ cooker.obj_id \in Revisions )
          => OnlyMaster(cooker.obj_id)

\* The bundle of dir2 is done, with the synthetic revision, the ref to it
\* and the directories and contents below dir2.
C25_Witness ==
    /\ cooker.pc = "done" /\ cooker.archive
    /\ cooker.obj_id = "dir2"
    /\ cooker.written[SyntheticRevision] = 1
    /\ OnlyMaster(SyntheticRevision)
    /\ cooker.written["dir2"] = 1 /\ cooker.written["dir1"] = 1


\* push_snapshot_subgraph has returned.
SnapshotPushed ==
    /\ cooker.obj_id \in Snapshots
    /\ cooker.pc \notin {"push_subgraph", "branches", "failed"} \/ Loaded

\* The place of the branch that the alias at place i names.
TargetOfAlias(i) == (i % Len(cooker.branches)) + 1

\* The branch at place j is the only one that is neither an alias nor
\* dangling.
OnlyTarget(j) ==
    /\ cooker.branches[j] \in Objects
    /\ \A k \in DOMAIN cooker.branches \ {j} :
          cooker.branches[k] \in {Alias, Dangling}

\* The refs of the snapshot are written: the ref of an alias is symbolic
\* and names the branch of its target, a dangling branch has no ref, and
\* every ref is the one of a branch.
C26_Refs ==
    SnapshotPushed =>
       /\ \A i \in DOMAIN cooker.branches :
             /\ cooker.branches[i] = Alias
                   => [ name |-> BranchNames[i], symbolic |-> TRUE,
                        target |-> BranchNames[TargetOfAlias(i)] ]
                         \in cooker.refs
             /\ cooker.branches[i] = Dangling
                   => \A ref \in cooker.refs : ref.name # BranchNames[i]
       /\ Cardinality(cooker.refs) =
             Cardinality({ i \in DOMAIN cooker.branches :
                             cooker.branches[i] # Dangling })

\* Nothing is ever fetched, written or seen but what can be reached from
\* the targets of the branches that are not aliases; and when load_objects
\* has returned, the target of the branch an alias names, if it is the
\* only target of the snapshot and the storage can give it, is written
\* once.
C26_Objects ==
    cooker.obj_id \in Snapshots =>
       /\ \A o \in Objects :
             cooker.written[o] + cooker.fetched[o] > 0 \/ o \in cooker.seen
                => o \in Reachable(RootObjects)
       /\ Loaded =>
             \A i \in DOMAIN cooker.branches :
                ( /\ cooker.branches[i] = Alias
                  /\ OnlyTarget(TargetOfAlias(i))
                  /\ cooker.branches[TargetOfAlias(i)] \in StorageClosure )
                   => cooker.written[cooker.branches[TargetOfAlias(i)]] = 1

\* The step of push_snapshot_subgraph for an alias pushes, fetches and
\* writes nothing.
C26_AliasStep ==
    ( cooker.pc = "branches" /\ Head(cooker.todo) = Alias )
        => /\ cooker'.written = cooker.written
           /\ cooker'.fetched = cooker.fetched
           /\ cooker'.seen = cooker.seen
           /\ cooker'.rev_stack = cooker.rev_stack
           /\ cooker'.rel_stack = cooker.rel_stack
           /\ cooker'.dir_stack = cooker.dir_stack
           /\ cooker'.cnt_stack = cooker.cnt_stack
           /\ cooker'.walks = cooker.walks
           /\ cooker'.exc = "none"

\* C26: for a snapshot root, an alias branch is written as a symbolic ref
\* that names the branch of its target, a dangling branch gets no ref, the
\* alias is not a root of the traversal, and the object of the branch it
\* names is written once.
C26_Alias ==
    [](C26_Refs /\ C26_Objects) /\ [][C26_AliasStep]_vars

\* The bundle of the snapshot with an alias and the branch of rev3 that it
\* names is done without a graph: rev3 is written once and the ref of the
\* alias is symbolic.
C26_Witness ==
    /\ cooker.pc = "done" /\ cooker.archive
    /\ cooker.obj_id = "snp" /\ ~ cooker.has_graph
    /\ cooker.branches = << Alias, "rev3" >>
    /\ cooker.written["rev3"] = 1
    /\ cooker.refs =
          { [ name |-> "refs/heads/b1", symbolic |-> TRUE,
              target |-> "refs/heads/b2" ],
            [ name |-> "refs/heads/b2", symbolic |-> FALSE,
              target |-> "rev3" ] }


\* The exceptions that the checks of the cooker raise for an object graph
\* it does not accept.
ValidationErrors == {"AssertionError", "NotImplementedError"}

\* A branch of the snapshot, or a release of a branch, targets a snapshot.
NestedSnapshot ==
    /\ cooker.obj_id \in Snapshots
    /\ \E i \in DOMAIN cooker.branches :
          VisitNodes(cooker.branches[i]) \cap OtherSnapshots # {}

\* C27: for a snapshot root with a branch or a release that targets a
\* snapshot, the call does not get past push_snapshot_subgraph, and when
\* it has ended it has ended with an exception raised by a check of the
\* cooker, with the graph and without it.
C27_NestedSnapshot ==
    NestedSnapshot
       => /\ cooker.pc \in {"push_subgraph", "branches", "failed"}
          /\ cooker.pc = "failed" => cooker.exc \in ValidationErrors


\* The ids on the four stacks, in one list.
OnStacks ==
    cooker.rel_stack \o cooker.rev_stack \o cooker.dir_stack
        \o cooker.cnt_stack

\* C28: in every state of prepare_bundle every id on a stack is seen, and
\* no id is twice on the stacks.
C28_Stacks ==
    /\ Range(OnStacks) \subseteq cooker.seen
    /\ \A o \in Range(OnStacks) : Count(OnStacks, o) = 1


\* C29: once the storage has been asked for a revision, release or
\* directory that it has no record of, the call has ended with an
\* exception.
C29_MissingAborts ==
    ( \E o \in cooker.defect.missing : cooker.fetched[o] >= 1 )
        => cooker.pc = "failed"

\* C30: whatever git fsck reports and whatever becomes of the two git
\* commands of repack, the call does not end with the exception of a git
\* command, and when repack has returned write_archive is next.
C30_CompactionNotFatal ==
    /\ cooker.exc # "CalledProcessError"
    /\ cooker.pc = "failed" => ~ cooker.archive
    /\ cooker.pc = "done" => cooker.archive


\* The steps of prepare_bundle that write refs, validate, compact and
\* write the archive, in the order of the code.
Pipeline == << "write_refs", "git_fsck", "repack", "write_archive" >>

\* C31: the refs are written, git fsck is run, the repository is repacked
\* and the archive is written in this order and each once at most; the
\* archive is written only after all of them, with the stacks empty; for a
\* revision or a directory the refs are written with the stacks empty, and
\* for a snapshot they are written once, before load_objects, and not by
\* the write_refs step that follows it.
C31_Pipeline ==
    /\ \E n \in 0 .. Len(Pipeline) : cooker.steps = SubSeq(Pipeline, 1, n)
    /\ cooker.archive => cooker.steps = Pipeline /\ StacksEmpty(cooker)
    /\ ( cooker.steps # << >> /\ cooker.obj_id \notin Snapshots )
          => StacksEmpty(cooker)
    /\ ( cooker.obj_id \in Snapshots
         /\ cooker.pc \in {"load_objects", "load_revisions",
                           "load_directories", "load_contents", "git_fsck"} )
          => cooker.steps = << "write_refs" >>

\* The bundle of the snapshot with branches to rev3 and rel4 is done
\* without a graph, after the four steps.
C31_Witness ==
    /\ cooker.pc = "done" /\ cooker.archive
    /\ cooker.obj_id = "snp" /\ ~ cooker.has_graph
    /\ cooker.branches = << "rev3", "rel4" >>
    /\ cooker.steps = Pipeline
    /\ Cardinality(cooker.refs) = 2


\* The list s is the beginning of the list t.
IsPrefix(s, t) == Len(s) <= Len(t) /\ SubSeq(t, 1, Len(s)) = s

\* A step of load_objects has drained the stack: the batch is the end of
\* the stack and no longer than size, the objects of the category are
\* fetched as often as they are in the batch, the ids before the batch are
\* still on the stack, and the other stacks have lost nothing.
Drained(stack, size, category) ==
    LET old == cooker[stack]
        taken == cooker'.batch
        rest == SubSeq(old, 1, Len(old) - Len(taken))
    IN  /\ Len(taken) <= size
        /\ Len(taken) <= Len(old)
        /\ old = rest \o taken
        /\ IsPrefix(rest, cooker'[stack])
        /\ \A o \in category :
              cooker'.fetched[o] = cooker.fetched[o] + Count(taken, o)
        /\ \A o \in Objects \ category :
              cooker'.fetched[o] = cooker.fetched[o]
        /\ \A other \in {"rel_stack", "rev_stack", "dir_stack", "cnt_stack"}
                           \ {stack} :
              IsPrefix(cooker[other], cooker'[other])

\* A step of the loop of load_objects: the releases, then the revisions,
\* then the directories, then the contents, then the test again.
C32_Turn ==
    /\ ( cooker.pc = "load_objects" /\ ~ StacksEmpty(cooker) )
          => /\ cooker'.pc = "load_revisions"
             /\ Drained("rel_stack", RELEASE_BATCH_SIZE, Releases)
    /\ cooker.pc = "load_revisions"
          => /\ cooker'.pc = "load_directories"
             /\ Drained("rev_stack", REVISION_BATCH_SIZE, Revisions)
    /\ cooker.pc = "load_directories"
          => /\ cooker'.pc = "load_contents"
             /\ Drained("dir_stack", DIRECTORY_BATCH_SIZE, Directories)
    /\ cooker.pc = "load_contents"
          => /\ cooker'.pc = "load_objects"
             /\ Drained("cnt_stack", CONTENT_BATCH_SIZE, Contents)

\* C32: each turn of load_objects drains the stacks in the order releases,
\* revisions, directories, contents; each drain takes no more than the
\* batch size of its category from the end of its stack and fetches just
\* these, and the ids it does not take stay on the stack.
C32_Batches == [][C32_Turn]_vars

\* A full batch of revisions has been loaded and a revision is left on the
\* stack for the next turn.
C32_Witness ==
    /\ cooker.pc = "load_directories"
    /\ Len(cooker.batch) = REVISION_BATCH_SIZE
    /\ cooker.rev_stack # << >>
    /\ \A i \in DOMAIN cooker.batch : cooker.fetched[cooker.batch[i]] = 1
    /\ \A i \in DOMAIN cooker.rev_stack :
          cooker.fetched[cooker.rev_stack[i]] = 0


\* The target of a submodule entry is not seen, on no stack, not fetched
\* and not written.
C33_NoSubmodule ==
    \A o \in Submodules :
       /\ o \notin cooker.seen
       /\ o \notin Range(OnStacks)
       /\ cooker.fetched[o] = 0
       /\ cooker.written[o] = 0

\* The step that loads a batch of directories: each directory of the batch
\* that the storage has is written, and with it the targets of its file
\* and directory entries are seen; those that were not seen before are now
\* on the content stack and on the directory stack.
C33_LoadDirectories ==
    cooker.pc = "load_directories" =>
       \A d \in Range(cooker'.batch) \ cooker.defect.missing :
          /\ cooker'.written[d] = cooker.written[d] + Count(cooker'.batch, d)
          /\ files[d] \cup subdirs[d] \subseteq cooker'.seen
          /\ files[d] \ cooker.seen \subseteq Range(cooker'.cnt_stack)
          /\ subdirs[d] \ cooker.seen \subseteq Range(cooker'.dir_stack)

\* C33: load_directory writes the directory and pushes the targets of its
\* file entries on the content stack and those of its directory entries
\* on the directory stack; the target of an entry of type rev is never
\* pushed, fetched or written.
C33_DirectoryEntries ==
    []C33_NoSubmodule /\ [][C33_LoadDirectories]_vars

\* dir2, which has a submodule, is written and its file cnt2 is on the
\* content stack; the submodule is not seen.
C33_Witness ==
    /\ cooker.pc = "load_contents"
    /\ submodules["dir2"] = {"rev0"}
    /\ cooker.batch = << "dir2" >>
    /\ cooker.written["dir2"] = 1
    /\ "cnt2" \in Range(cooker.cnt_stack)
    /\ "rev0" \notin cooker.seen


-----------------------------------------------------------------------------
(* Properties of batch_cook, create_task and the cache (C34 to C40). *)

\* The batch-bundle entries of a batch.
EntriesOf(table, batch_id) == { x \in table : x.batch_id = batch_id }

\* Every batch-bundle entry names a batch and a row that exist.
C34_EntriesPoint ==
    \A x \in vault_batch_bundle :
       /\ x.batch_id \in vault_batch
       /\ \E r \in vault_bundle : r.id = x.bundle_id

\* A step of a batch_cook call either creates the batch, the rows and the
\* entries together, or creates none of them.
C34_Together ==
    LET created == vault_batch' \ vault_batch
        old_ids == { r.id : r \in vault_bundle }
        new_rows == { r \in vault_bundle' : r.id \notin old_ids }
        new_entries == vault_batch_bundle' \ vault_batch_bundle
    IN  proc'[1].op = "batch_cook" =>
          IF created = {}
          THEN /\ new_rows = {}
               /\ { r.id : r \in vault_bundle' } = old_ids
               /\ vault_batch_bundle' = vault_batch_bundle
          ELSE /\ created = { proc'[1].batch_id }
               /\ \A x \in new_entries : x.batch_id \in created
               /\ \A r \in new_rows :
                     [ batch_id |-> proc'[1].batch_id, bundle_id |-> r.id ]
                        \in vault_batch_bundle'
               /\ \A k \in proc'[1].batch :
                     \E r \in vault_bundle' :
                        /\ KeyOf(r) = k
                        /\ [ batch_id |-> proc'[1].batch_id,
                             bundle_id |-> r.id ] \in vault_batch_bundle'

\* The batch of a batch_cook call has a member for every key of the list,
\* however far the call got and however it ended.
C34_NotEmpty ==
    ( proc[1].op = "batch_cook" /\ proc[1].batch_id # NULL )
    => /\ proc[1].batch_id \in vault_batch
       /\ EntriesOf(vault_batch_bundle, proc[1].batch_id) # {}
       /\ \A k \in proc[1].batch :
             \E r \in RowsOf(k) :
                [ batch_id |-> proc[1].batch_id, bundle_id |-> r.id ]
                   \in vault_batch_bundle

\* C34: the batch, the rows and the batch-bundle entries of one batch_cook
\* call become visible together or not at all: whether the call returns or
\* fails, no entry names a batch or a row that does not exist, every row
\* the call created is linked to its batch, and its batch is not empty.
C34_BatchAtomic ==
    /\ []C34_EntriesPoint
    /\ []C34_NotEmpty
    /\ [][C34_Together]_vars

\* C34 witness: batch_cook committed a batch of two keys, one with a failed
\* row that it deleted and one with a done row, and then failed in the
\* scheduler: both rows are linked to the batch.
C34_Witness ==
    /\ proc[1].op = "batch_cook"
    /\ proc[1].pc = "idle"
    /\ proc[1].exc = "SchedulerError"
    /\ Cardinality(proc[1].batch) = 2
    /\ \E r \in proc[1].rows0 : r.task_status = "failed"
    /\ \E r \in proc[1].rows0 : r.task_status = "done"
    /\ Cardinality(EntriesOf(vault_batch_bundle, proc[1].batch_id)) = 2


\* The rows of the keys of the list that were failed when batch_cook
\* started.
FailedMembers(c) == { r \in c.rows0 : r.task_status = "failed" }

\* When batch_cook has returned, the failed row of a key of the list is
\* gone and the key has a row of its own, new, with the id of a task that
\* the call sent.
C35_Recreated ==
    ( /\ proc[1].op = "batch_cook"
      /\ proc[1].pc = "idle"
      /\ proc[1].exc = "none" )
    => \A f \in FailedMembers(proc[1]) :
          /\ f \notin vault_bundle
          /\ \A r \in vault_bundle : r.id # f.id
          /\ \E r \in vault_bundle :
                /\ RowsOf(KeyOf(f)) = {r}
                /\ r.task_status = "new"
                /\ r.ts_done = NULL
                /\ r.task_id # NULL
                /\ r.task_id = proc[1].task_ids[KeyOf(f)]
          /\ tasks[KeyOf(f)] = proc[1].sent0[KeyOf(f)] + 1

\* No step of batch_cook touches a row of a key outside the list, or the
\* subscriptions and batch-bundle entries of such a row.
C35_OthersUntouched ==
    proc'[1].op = "batch_cook" =>
       \A r \in vault_bundle :
          KeyOf(r) \notin proc'[1].batch =>
             /\ r \in vault_bundle'
             /\ \A x \in vault_batch_bundle :
                   x.bundle_id = r.id => x \in vault_batch_bundle'
             /\ \A x \in vault_notif_email :
                   x.bundle_id = r.id => x \in vault_notif_email'
             /\ tasks'[KeyOf(r)] = tasks[KeyOf(r)]

\* C35: batch_cook that returns has deleted the failed row of every key of
\* the list, created a row with status new for the key and dispatched one
\* task for it; the rows of the keys outside the list, failed ones
\* included, are as they were.
C35_BatchFailedMembers ==
    /\ []C35_Recreated
    /\ [][C35_OthersUntouched]_vars

\* C35 witness: batch_cook has returned for a list of one key whose row
\* was failed, while the row of a key outside the list is failed and in a
\* batch: the key of the list has had its second task.
C35_Witness ==
    /\ proc[1].op = "batch_cook"
    /\ proc[1].pc = "idle"
    /\ proc[1].exc = "none"
    /\ Cardinality(proc[1].batch) = 1
    /\ FailedMembers(proc[1]) # {}
    /\ \A k \in proc[1].batch : tasks[k] = 2
    /\ \E r \in vault_bundle :
          /\ KeyOf(r) \notin proc[1].batch
          /\ r.task_status = "failed"
          /\ \E x \in vault_batch_bundle : x.bundle_id = r.id


\* C36: an object that check_exists() does not find in the storage has no
\* row in the ledger and has had no task dispatched, whichever of cook,
\* create_task and batch_cook was called for it.
C36_ExistenceChecked ==
    \A k \in AllKeys :
       ~check_exists(k) => RowsOf(k) = {} /\ tasks[k] = 0


\* C37: when a cook call has ended, with its result or with an error, the
\* ledger has no row of the key that is new and has no task id.
C37_NoStuckRow ==
    ( proc[1].op = "cook" /\ proc[1].pc = "idle" )
    => \A r \in RowsOf(proc[1].key) :
          ~( r.task_status = "new" /\ r.task_id = NULL )


\* C38: whenever the cache holds the bundle of a key for which a task was
\* dispatched, the ledger holds a row of the key.
C38_NoOrphanBundle ==
    \A k \in AllKeys :
       ( is_cached(k) /\ tasks[k] > 0 ) => RowsOf(k) # {}

\* An expiration removes the bundle of every row it deletes.
C38_ExpiredUncached ==
    ( proc[1].op \in {"cache_expire_oldest", "cache_expire_until"}
        /\ proc[1].pc = "idle" )
    => \A r \in proc[1].expired : ~is_cached(KeyOf(r))


\* C39: the rows that cache_expire_oldest and cache_expire_until delete
\* are rows whose task has ended: their status is done or failed.
C39_ExpiresOnlyEnded ==
    ( proc[1].op \in {"cache_expire_oldest", "cache_expire_until"}
        /\ proc[1].pc = "idle" )
    => \A r \in proc[1].expired : r.task_status \in {"done", "failed"}


\* C40: a step of send_notif deletes a subscription only if the message it
\* gave to _smtp_send for that subscription was taken by the mail server.
C40_RemovedOnlyIfSent ==
    [][ proc'[1].op = "send_notif"
        => \A n \in vault_notif_email \ vault_notif_email' :
              /\ Len(outbox') = Len(outbox) + 1
              /\ outbox'[Len(outbox')].n_id = n.id
              /\ outbox'[Len(outbox')].result = "sent" ]_vars

====
